---- MODULE Spec2Model ----
(***************************************************************************)
(* Model of the chron job supervisor (ChronService): the job registry,     *)
(* the generation cancel token, the cron scheduler tasks, the startup      *)
(* loops, the missed-run catch-up of schedule() and the execution path     *)
(* #executeJob, cut at every await of the source.  One action is the code  *)
(* that runs between two suspension points of one asynchronous call.       *)
(*                                                                         *)
(* Time is counted in cron minutes (clock).  A cron schedule is the set of *)
(* minutes of a cycle at which it fires.  A child process is identified    *)
(* with the invocation that spawned it.                                    *)
(***************************************************************************)
EXTENDS Integers, Sequences, FiniteSets, TLC

\* ---------------------------------------------------------------- bounds
MaxTime == 2       \* the clock stops advancing here
MaxInv == 2        \* invocations of #executeJob in one behaviour
MaxJobs == 2       \* Job objects created in one behaviour
MaxRunJobs == 1    \* Job objects created in a behaviour that runs them
MaxGen == 3        \* calls of reset() in one behaviour
MaxRunGen == 1     \* calls of reset() in a behaviour that makes them directly
MaxLoads == 2      \* calls of load() in one behaviour
MaxWatchLoads == 3 \* calls of load() in a behaviour with the watcher
MaxRequests == 2   \* HTTP requests served in one behaviour
MaxMessages == 3   \* messages in the mailbox
MaxEvents == 3     \* file-system events the watcher delivers in one behaviour
TimerTicks == 2    \* steps in which the debounce timer runs down
DebounceWait == 1000   \* milliseconds debouncedLoad waits after the last call
MaxNameLen == 4    \* length of the job names offered to #validateName

\* ---------------------------------------------------------------- inputs
NoCode == -1    \* statusCode undefined
NoTime == -1    \* lastRunTime undefined

AlphaNum ==
  {"a","b","c","d","e","f","g","h","i","j","k","l","m","n","o","p","q","r",
   "s","t","u","v","w","x","y","z","A","B","C","D","E","F","G","H","I","J",
   "K","L","M","N","O","P","Q","R","S","T","U","V","W","X","Y","Z",
   "0","1","2","3","4","5","6","7","8","9"}

\* job names offered to startup() and schedule(): two valid, one not
NameInputs == { <<"a">>, <<"b">>, <<"a", "-">> }

\* the characters of the names offered to #validateName: a lower-case
\* letter, an upper-case letter, a digit, the hyphen and a character the
\* pattern does not allow
NameChars == {"a", "Z", "1", "-", "_"}

NameStrings == UNION { [1..n -> NameChars] : n \in 0..MaxNameLen }

\* cron expressions offered to schedule(): every minute, every second
\* minute, and one that does not parse
EveryMinute == [valid |-> TRUE, cycle |-> 1, minutes |-> {0}]
EvenMinutes == [valid |-> TRUE, cycle |-> 2, minutes |-> {0}]
NoCron == [valid |-> FALSE, cycle |-> 1, minutes |-> {}]
CronInputs == { EveryMinute, EvenMinutes, NoCron }

\* makeUpMissedRuns: a number or "all"
MakeUp(n) == [all |-> FALSE, n |-> n]
MakeUpAll == [all |-> TRUE, n |-> 0]
MakeUpInputs == { MakeUp(0), MakeUp(1), MakeUpAll }

\* the entries of a chronfile after schema.parse: keepAlive, when given, is
\* true or false; allowConcurrentRuns and makeUpMissedRuns are left to their
\* defaults
StartupEntry(name, keepAlive) ==
  [type |-> "startup", name |-> name, keepAlive |-> keepAlive,
   schedule |-> NoCron, allowConcurrentRuns |-> FALSE,
   makeUpMissedRuns |-> MakeUp(0)]

ScheduleEntry(name, expr) ==
  [type |-> "scheduled", name |-> name, keepAlive |-> FALSE,
   schedule |-> expr, allowConcurrentRuns |-> FALSE,
   makeUpMissedRuns |-> MakeUp(0)]

StartupEntries == { StartupEntry(<<"a">>, TRUE), StartupEntry(<<"a", "-">>, TRUE) }

ScheduleEntries ==
  { ScheduleEntry(<<"a">>, EveryMinute), ScheduleEntry(<<"b">>, EveryMinute),
    ScheduleEntry(<<"b">>, NoCron) }

\* a chronfile that cannot be read, is not TOML or does not fit the schema
Unreadable == [ok |-> FALSE, entries |-> << >>]

\* the chronfiles load() finds: the startup table, then the schedule table
Chronfiles ==
  {Unreadable} \cup
  { [ok |-> TRUE, entries |-> e] :
      e \in {<< >>} \cup { <<s>> : s \in StartupEntries }
                    \cup { <<c>> : c \in ScheduleEntries }
                    \cup { <<s, c>> : s \in StartupEntries, c \in ScheduleEntries } }

\* path segments of the URLs, as sequences of characters like the job names
JobSeg == <<"j", "o", "b">>
MailboxSeg == <<"m", "a", "i", "l", "b", "o", "x">>
StatusSeg == <<"s", "t", "a", "t", "u", "s">>
LogsSeg == <<"l", "o", "g", "s">>
TerminateSeg == <<"t", "e", "r", "m", "i", "n", "a", "t", "e">>
MessagesSeg == <<"m", "e", "s", "s", "a", "g", "e", "s">>
CountSeg == <<"c", "o", "u", "n", "t">>
OtherSeg == <<"x">>

Methods == {"GET", "POST", "PUT", "DELETE"}

\* request bodies
Bodies == { <<"hello">>, <<"bye">> }

\* the paths requested, as their segments: /, the job routes of a
\* registered, an unregistered and an unknown command, the mailbox routes,
\* /mailbox/<name of a job>, and paths of no route
JobPaths ==
  { <<JobSeg, n, c>> :
      n \in { <<"a">>, <<"b">> },
      c \in {StatusSeg, LogsSeg, MailboxSeg, TerminateSeg, OtherSeg} }

MailboxPaths ==
  { <<MailboxSeg, c>> : c \in {MessagesSeg, CountSeg, <<"a">>, OtherSeg} }

StrayPaths ==
  { <<OtherSeg>>, <<JobSeg, <<"a">> >>, <<MailboxSeg>>,
    <<JobSeg, <<"a">>, StatusSeg, OtherSeg>> }

Paths == { << >> } \cup JobPaths \cup MailboxPaths \cup StrayPaths

Requests == [method : Methods, path : Paths, body : Bodies]

\* exit codes of a child; 143 is death by SIGTERM (128 + 15)
ExitCodes == {0, 1, 143}

\* run-status documents found in jobStatus.json when the daemon starts
SeedDbs ==
  { <<>>,
    << [id |-> -1, name |-> <<"a">>, timestamp |-> 0, statusCode |-> 0] >> }

VARIABLES
  clock,            \* Date.now(), in cron minutes
  statusDb,         \* #statusDb: sequence of RunStatusEntry
  mailbox,          \* the mailbox database: sequence of Message
  jobs,             \* #jobs: Map name -> Job (a reference into jobObj)
  jobObj,           \* the Job objects ever created
  call,             \* the startup()/schedule() call that created each Job
  abortController,  \* #abortController (identity of the current one)
  aborted,          \* the abort controllers whose signal is aborted
  listeners,        \* onAbort listeners registered, one per invocation
  scheduler,        \* #scheduler: task id -> next firing time
  inv,              \* the invocations of #executeJob
  lastError,        \* what the last startup()/schedule() call threw
  loader,           \* the load() calls of the chronfile
  watcher,          \* the chronfile watcher of main and its debounce timer
  http              \* the HTTP request being served, or the last one served

vars == << clock, statusDb, mailbox, jobs, jobObj, call, abortController,
           aborted, listeners, scheduler, inv, lastError, loader, watcher,
           http >>

\* ------------------------------------------------------------- helpers
Range(f) == { f[x] : x \in DOMAIN f }

Min(a, b) == IF a < b THEN a ELSE b

\* mutant of KebabMatch: /^[a-zA-Z0-9-]+$/
KebabMatchAnyHyphen(name, k, st) ==
  /\ Len(name) > 0
  /\ \A m \in k..Len(name) : name[m] \in AlphaNum \cup {"-"}

\* /^[a-zA-Z0-9]+(-[a-zA-Z0-9]+)*$/ as its automaton: st = 1 after an
\* alphanumeric (accepting), st = 0 at the start and after a hyphen
RECURSIVE KebabMatch(_, _, _)
KebabMatch(name, k, st) ==
  IF k > Len(name) THEN st = 1
  ELSE IF name[k] \in AlphaNum THEN KebabMatch(name, k + 1, 1)
  ELSE IF name[k] = "-" /\ st = 1 THEN KebabMatch(name, k + 1, 0)
  ELSE FALSE

\* mutant of ValidateName: the duplicate check is missing
ValidateNameNoDuplicateCheck(name) ==
  IF Len(name) = 0 \/ ~KebabMatch(name, 1, 0) THEN "InvalidName" ELSE "none"

\* #validateName: the error it throws, or "none"
ValidateName(name) ==
  IF Len(name) = 0 \/ ~KebabMatch(name, 1, 0) THEN "InvalidName"
  ELSE IF name \in DOMAIN jobs THEN "DuplicateName"
  ELSE "none"

\* Cron.getNextDate(t): the first firing strictly after t
NextDate(cron, t) ==
  CHOOSE u \in (t + 1)..(t + cron.cycle) :
    /\ (u % cron.cycle) \in cron.minutes
    /\ \A v \in (t + 1)..(u - 1) : (v % cron.cycle) \notin cron.minutes

\* insert r into a sequence sorted by descending timestamp, after the
\* entries that compare equal (Array.prototype.sort is stable)
RECURSIVE InsertDesc(_, _)
InsertDesc(r, s) ==
  IF s = <<>> THEN <<r>>
  ELSE IF r.timestamp > Head(s).timestamp THEN <<r>> \o s
  ELSE <<Head(s)>> \o InsertDesc(r, Tail(s))

RECURSIVE SortDesc(_)
SortDesc(s) ==
  IF s = <<>> THEN <<>>
  ELSE InsertDesc(s[Len(s)], SortDesc(SubSeq(s, 1, Len(s) - 1)))

\* getLastRuns: the entries of the job, most recent first
GetLastRuns(name) ==
  SortDesc(SelectSeq(statusDb, LAMBDA e : e.name = name))

\* mutant of LastRunTime: a job that never ran counts from the epoch
LastRunTimeOrEpoch(name) ==
  LET runs == GetLastRuns(name)
  IN  IF runs = <<>> THEN 0 ELSE runs[1].timestamp

\* (await this.getLastRuns(name))[0]?.timestamp
LastRunTime(name) ==
  LET runs == GetLastRuns(name)
  IN  IF runs = <<>> THEN NoTime ELSE runs[1].timestamp

\* the loop over getNextDatesIterator(lastRunTime) that counts missedRuns
RECURSIVE CountMissed(_, _, _)
CountMissed(cron, t, now) ==
  LET nextRun == NextDate(cron, t)
  IN  IF nextRun > now THEN 0 ELSE 1 + CountMissed(cron, nextRun, now)

MissedRuns(cron, lastRunTime, now) ==
  IF lastRunTime # NoTime THEN CountMissed(cron, lastRunTime, now) ELSE 0

\* mutant of MakeUpRuns: "all" is not told from a number
MakeUpRunsNumberOnly(makeUpMissedRuns, missedRuns) ==
  Min(missedRuns, makeUpMissedRuns.n)

\* makeUpRuns
MakeUpRuns(makeUpMissedRuns, missedRuns) ==
  IF makeUpMissedRuns.all THEN missedRuns
  ELSE Min(missedRuns, makeUpMissedRuns.n)

\* the '<name> failed with status code <code>' message
\* the source "@errors"; the sources of the other messages are job names,
\* which are sequences of characters
ErrorsSource == <<"@errors">>

ErrorMessage(name, code) ==
  [source |-> ErrorsSource, message |-> <<name, "failed with status code", code>>]

\* mutant of FailureMessages: the check of status.success is missing
FailureMessagesAlways(name, code) == << ErrorMessage(name, code) >>

\* mutant of FailureMessages: a child killed by a signal is not reported
FailureMessagesNoSignal(name, code) ==
  IF code # 0 /\ code < 128 THEN << ErrorMessage(name, code) >> ELSE << >>

\* what a finished child makes #executeJob post to the mailbox
FailureMessages(name, code) ==
  IF code # 0 THEN << ErrorMessage(name, code) >> ELSE << >>

\* mutant of UpdateOne: the query is empty, the first document is patched
UpdateOneAnyId(db, id, code) ==
  IF db = <<>> THEN <<>>
  ELSE <<[Head(db) EXCEPT !.statusCode = code]>> \o Tail(db)

\* statusDb.updateOne({ id }, { statusCode }): patches the first match
RECURSIVE UpdateOne(_, _, _)
UpdateOne(db, id, code) ==
  IF db = <<>> THEN <<>>
  ELSE IF Head(db).id = id
       THEN <<[Head(db) EXCEPT !.statusCode = code]>> \o Tail(db)
       ELSE <<Head(db)>> \o UpdateOne(Tail(db), id, code)

\* mutant of AbortListeners: only the child held in job.process is killed
AbortListenersOfJobProcess(c) ==
  { i \in listeners : /\ jobObj[inv[i].job].abortSignal = c
                       /\ jobObj[inv[i].job].process = i }

\* the invocations whose onAbort listener is called when controller c aborts
AbortListeners(c) ==
  { i \in listeners : jobObj[inv[i].job].abortSignal = c }

\* mutant of ClearJobs: the registry is not cleared
ClearJobsKeeps(js) == js

\* this.#jobs.clear()
ClearJobs(js) == <<>>

\* an invocation of #executeJob that has not run yet
\* the path of CHRON_MAILBOX_URL, http://0.0.0.0:<port>/mailbox/<name>
MailboxUrl(name) == <<MailboxSeg, name>>

NewInvocation(j, by, pc, startTime) ==
  [job |-> j, by |-> by, pc |-> pc, startTime |-> startTime, id |-> 0,
   process |-> "none", code |-> NoCode, sigterm |-> FALSE, logFile |-> "none",
   mailboxUrl |-> << >>, failed |-> {}, header |-> "none", footer |-> "none",
   reaped |-> FALSE]

\* mutant of EnterExecute: the abort signal is not looked at
EnterExecuteNoAbortCheck(j, sig, by) == NewInvocation(j, by, "L226", clock)

\* the entry of #executeJob for job j, whose abort signal is sig, up to its
\* first await: it returns at once when the signal is aborted
EnterExecute(j, sig, by) ==
  IF sig \in aborted
  THEN NewInvocation(j, by, "cancelled", NoTime)
  ELSE NewInvocation(j, by, "L226", clock)

\* mutant of Finished: #executeJob is not awaited
FinishedAtOnce(i) == TRUE

\* the promise of invocation i is settled: 'await this.#executeJob(job)' resumes
Finished(i) == inv[i].pc \in {"done", "cancelled"}

\* the state of a startup() or schedule() call
NewCall(pc, keepAlive, allow, makeUp, lastRunTime, awaiting) ==
  [pc |-> pc, keepAlive |-> keepAlive, allowConcurrentRuns |-> allow,
   makeUpMissedRuns |-> makeUp, lastRunTime |-> lastRunTime, now |-> NoTime,
   missedRuns |-> 0, makeUpRuns |-> 0, run |-> 0, entered |-> 0,
   awaiting |-> awaiting]

\* a load() call: who made it, where it is, the entries of the chronfile it
\* has parsed, the entries still to register,
\* the error its promise was rejected with and the errors of the promises of
\* startup() and schedule() it dropped
NewLoad(by, pc) ==
  [by |-> by, pc |-> pc, config |-> << >>, entries |-> << >>,
   thrown |-> "none", rejected |-> << >>, registered |-> {}]

\* the watcher before any event: no timer is set
NoWatcher ==
  [timer |-> NoTime, events |-> 0, last |-> "none", calls |-> 0,
   logged |-> << >>]

\* a Response: its status, its text, or the fields of its JSON body that
\* are present (nextRun and pid are left out of the JSON when undefined)
NoResponse ==
  [status |-> 0, text |-> "none", name |-> << >>, type |-> "none",
   runs |-> << >>, nextRun |-> NoTime, pid |-> 0, messages |-> << >>,
   count |-> -1, list |-> {}]

\* no HTTP request has been received
NoRequest ==
  [pc |-> "idle", served |-> 0, method |-> "none", path |-> << >>,
   body |-> << >>, job |-> 0, runs |-> << >>, kill |-> 0,
   response |-> NoResponse]

\* ---------------------------------------------------------------- Init
Init ==
  /\ clock = 0
  /\ statusDb \in SeedDbs
  /\ mailbox = <<>>
  /\ jobs = <<>>
  /\ jobObj = <<>>
  /\ call = <<>>
  /\ abortController = 0
  /\ aborted = {}
  /\ listeners = {}
  /\ scheduler = <<>>
  /\ inv = <<>>
  /\ lastError = "none"
  /\ loader = << >>
  /\ watcher = NoWatcher
  /\ http = NoRequest

\* ------------------------------------------------------------- actions
\* time passes
Tick ==
  /\ clock < MaxTime
  /\ clock' = clock + 1
  /\ UNCHANGED << statusDb, mailbox, jobs, jobObj, call, abortController,
                  aborted, listeners, scheduler, inv, lastError,
                  loader, watcher, http >>

\* startup(name, command, { keepAlive }) up to its first await
Startup(name, keepAlive) ==
  LET err == ValidateName(name)
      j   == Len(jobObj) + 1
  IN
  IF err # "none"
  THEN /\ lastError' = err
       /\ UNCHANGED << clock, statusDb, mailbox, jobs, jobObj, call,
                       abortController, aborted, listeners, scheduler, inv,
                  watcher, http >>
  ELSE /\ Len(jobObj) < MaxJobs
       /\ Len(inv) < MaxInv
       /\ lastError' = "none"
       /\ jobObj' = Append(jobObj,
            [name |-> name, type |-> "startup", process |-> 0,
             abortSignal |-> abortController, schedule |-> NoCron,
             schedulerTaskId |-> 0])
       /\ jobs' = (name :> j) @@ jobs
       \* first iteration of the loop: the signal check, then #executeJob
       /\ IF abortController \in aborted
          THEN /\ inv' = inv
               /\ call' = Append(call, NewCall("done", keepAlive, FALSE,
                                   MakeUp(0), NoTime, 0))
          ELSE /\ inv' = Append(inv, EnterExecute(j, abortController, "startup"))
               /\ call' = Append(call, NewCall("L122", keepAlive, FALSE,
                                   MakeUp(0), NoTime,
                                   Len(inv) + 1))
       /\ UNCHANGED << clock, statusDb, mailbox, abortController, aborted,
                       listeners, scheduler,
                  watcher, http >>

\* mutant of StartupResume: the loop is left whatever keepAlive is
StartupResumeNeverSleeps(j) ==
  /\ j \in DOMAIN call
  /\ jobObj[j].type = "startup"
  /\ call[j].pc = "L122"
  /\ Finished(call[j].awaiting)
  /\ call' = [call EXCEPT ![j].pc = "done"]
  /\ UNCHANGED << clock, statusDb, mailbox, jobs, jobObj, abortController,
                  aborted, listeners, scheduler, inv, lastError,
                  loader, watcher, http >>

\* mutant of StartupResume: the loop goes on whatever keepAlive is
StartupResumeAlwaysSleeps(j) ==
  /\ j \in DOMAIN call
  /\ jobObj[j].type = "startup"
  /\ call[j].pc = "L122"
  /\ Finished(call[j].awaiting)
  /\ call' = [call EXCEPT ![j].pc = "L130"]
  /\ UNCHANGED << clock, statusDb, mailbox, jobs, jobObj, abortController,
                  aborted, listeners, scheduler, inv, lastError,
                  loader, watcher, http >>

\* startup(): #executeJob has returned; leave the loop or sleep(5)
StartupResume(j) ==
  /\ j \in DOMAIN call
  /\ jobObj[j].type = "startup"
  /\ call[j].pc = "L122"
  /\ Finished(call[j].awaiting)
  /\ call' = [call EXCEPT ![j].pc = IF call[j].keepAlive THEN "L130" ELSE "done"]
  /\ UNCHANGED << clock, statusDb, mailbox, jobs, jobObj, abortController,
                  aborted, listeners, scheduler, inv, lastError,
                  loader, watcher, http >>

\* mutant of StartupWake: the loop does not look at the abort signal
StartupWakeNoAbortCheck(j) ==
  /\ j \in DOMAIN call
  /\ jobObj[j].type = "startup"
  /\ call[j].pc = "L130"
  /\ Len(inv) < MaxInv
  /\ inv' = Append(inv, EnterExecute(j, jobObj[j].abortSignal, "startup"))
  /\ call' = [call EXCEPT ![j].pc = "L122", ![j].awaiting = Len(inv) + 1]
  /\ UNCHANGED << clock, statusDb, mailbox, jobs, jobObj, abortController,
                  aborted, listeners, scheduler, lastError,
                  loader, watcher, http >>

\* startup(): the sleep is over; next iteration of the loop
StartupWake(j) ==
  /\ j \in DOMAIN call
  /\ jobObj[j].type = "startup"
  /\ call[j].pc = "L130"
  /\ IF jobObj[j].abortSignal \in aborted
     THEN /\ call' = [call EXCEPT ![j].pc = "done"]
          /\ inv' = inv
     ELSE /\ Len(inv) < MaxInv
          /\ inv' = Append(inv, EnterExecute(j, jobObj[j].abortSignal, "startup"))
          /\ call' = [call EXCEPT ![j].pc = "L122",
                                  ![j].awaiting = Len(inv) + 1]
  /\ UNCHANGED << clock, statusDb, mailbox, jobs, jobObj, abortController,
                  aborted, listeners, scheduler, lastError,
                  loader, watcher, http >>

\* mutant of Schedule: the task is registered before the expression is parsed
ScheduleRegistersFirst(name, expr, allow, makeUp) ==
  LET err == ValidateName(name)
      j   == Len(jobObj) + 1
  IN
  IF err # "none" \/ ~expr.valid
  THEN /\ lastError' = IF err # "none" THEN err ELSE "InvalidCron"
       /\ scheduler' = IF err = "none" THEN (j :> clock) @@ scheduler
                                       ELSE scheduler
       /\ UNCHANGED << clock, statusDb, mailbox, jobs, jobObj, call,
                       abortController, aborted, listeners, inv,
                  watcher, http >>
  ELSE /\ Len(jobObj) < MaxJobs
       /\ lastError' = "none"
       /\ scheduler' = (j :> NextDate(expr, clock)) @@ scheduler
       /\ jobObj' = Append(jobObj,
            [name |-> name, type |-> "scheduled", process |-> 0,
             abortSignal |-> abortController, schedule |-> expr,
             schedulerTaskId |-> j])
       /\ jobs' = (name :> j) @@ jobs
       /\ call' = Append(call, NewCall("L173", FALSE, allow, makeUp,
                                       LastRunTime(name), 0))
       /\ UNCHANGED << clock, statusDb, mailbox, abortController, aborted,
                       listeners, inv,
                  watcher, http >>

\* schedule(name, schedule, command, options) up to its first await; the
\* query of getLastRuns reads the database when it is issued
Schedule(name, expr, allow, makeUp) ==
  LET err == ValidateName(name)
      j   == Len(jobObj) + 1
  IN
  IF err # "none" \/ ~expr.valid
  THEN /\ lastError' = IF err # "none" THEN err ELSE "InvalidCron"
       /\ UNCHANGED << clock, statusDb, mailbox, jobs, jobObj, call,
                       abortController, aborted, listeners, scheduler, inv,
                  watcher, http >>
  ELSE /\ Len(jobObj) < MaxJobs
       /\ lastError' = "none"
       /\ scheduler' = (j :> NextDate(expr, clock)) @@ scheduler
       /\ jobObj' = Append(jobObj,
            [name |-> name, type |-> "scheduled", process |-> 0,
             abortSignal |-> abortController, schedule |-> expr,
             schedulerTaskId |-> j])
       /\ jobs' = (name :> j) @@ jobs
       /\ call' = Append(call, NewCall("L173", FALSE, allow, makeUp,
                                       LastRunTime(name), 0))
       /\ UNCHANGED << clock, statusDb, mailbox, abortController, aborted,
                       listeners, inv,
                  watcher, http >>

\* schedule(): getLastRuns has answered; count the missed runs
ScheduleCount(j) ==
  /\ j \in DOMAIN call
  /\ call[j].pc = "L173"
  /\ LET missed == MissedRuns(jobObj[j].schedule, call[j].lastRunTime, clock)
         makeUp == MakeUpRuns(call[j].makeUpMissedRuns, missed)
     IN  call' = [call EXCEPT ![j].now = clock,
                              ![j].missedRuns = missed,
                              ![j].makeUpRuns = makeUp,
                              ![j].pc = IF makeUp > 0 THEN "L194" ELSE "done"]
  /\ UNCHANGED << clock, statusDb, mailbox, jobs, jobObj, abortController,
                  aborted, listeners, scheduler, inv, lastError,
                  loader, watcher, http >>

\* schedule(): one iteration of the make-up loop
ScheduleCatchUp(j) ==
  /\ j \in DOMAIN call
  /\ \/ call[j].pc = "L194"
     \/ call[j].pc = "L199" /\ Finished(call[j].awaiting)
  /\ LET run == IF call[j].pc = "L194" THEN 0 ELSE call[j].run + 1
     IN  IF run < call[j].makeUpRuns
         THEN /\ Len(inv) < MaxInv
              /\ inv' = Append(inv, EnterExecute(j, jobObj[j].abortSignal, "catchup"))
              /\ call' = [call EXCEPT ![j].pc = "L199", ![j].run = run,
                                      ![j].entered = @ + 1,
                                      ![j].awaiting = Len(inv) + 1]
         ELSE /\ inv' = inv
              /\ call' = [call EXCEPT ![j].pc = "done", ![j].run = run]
  /\ UNCHANGED << clock, statusDb, mailbox, jobs, jobObj, abortController,
                  aborted, listeners, scheduler, lastError,
                  loader, watcher, http >>

\* mutant of CronFire: the callback does not look at job.process
CronFireAlways(j) ==
  /\ j \in DOMAIN scheduler
  /\ scheduler[j] <= clock
  /\ scheduler' = [scheduler EXCEPT ![j] = NextDate(jobObj[j].schedule, clock)]
  /\ Len(inv) < MaxInv
  /\ inv' = Append(inv, EnterExecute(j, jobObj[j].abortSignal, "cron"))
  /\ UNCHANGED << clock, statusDb, mailbox, jobs, jobObj, call,
                  abortController, aborted, listeners, lastError,
                  loader, watcher, http >>

\* mutant of CronFire: the callback skips the run while any job has a child
CronFireOneAtATime(j) ==
  /\ j \in DOMAIN scheduler
  /\ scheduler[j] <= clock
  /\ scheduler' = [scheduler EXCEPT ![j] = NextDate(jobObj[j].schedule, clock)]
  /\ IF \E k \in DOMAIN jobObj : jobObj[k].process # 0
     THEN inv' = inv
     ELSE /\ Len(inv) < MaxInv
          /\ inv' = Append(inv, EnterExecute(j, jobObj[j].abortSignal, "cron"))
  /\ UNCHANGED << clock, statusDb, mailbox, jobs, jobObj, call,
                  abortController, aborted, listeners, lastError,
                  loader, watcher, http >>

\* the scheduler calls the task of job j
CronFire(j) ==
  /\ j \in DOMAIN scheduler
  /\ scheduler[j] <= clock
  /\ scheduler' = [scheduler EXCEPT ![j] = NextDate(jobObj[j].schedule, clock)]
  /\ IF jobObj[j].process # 0 /\ ~call[j].allowConcurrentRuns
     THEN inv' = inv
     ELSE /\ Len(inv) < MaxInv
          /\ inv' = Append(inv, EnterExecute(j, jobObj[j].abortSignal, "cron"))
  /\ UNCHANGED << clock, statusDb, mailbox, jobs, jobObj, call,
                  abortController, aborted, listeners, lastError,
                  loader, watcher, http >>

\* mutant of Reset: the scheduler tasks are not unregistered
ResetKeepsTasks ==
  /\ abortController < MaxGen
  /\ aborted' = aborted \cup {abortController}
  /\ inv' = [i \in DOMAIN inv |->
               IF i \in AbortListeners(abortController)
                  /\ inv[i].process = "running"
               THEN [inv[i] EXCEPT !.sigterm = TRUE] ELSE inv[i]]
  /\ jobs' = ClearJobs(jobs)
  /\ abortController' = abortController + 1
  /\ UNCHANGED << clock, statusDb, mailbox, jobObj, call, listeners, lastError,
                  scheduler,
                  watcher, http >>

\* mutant of Reset: the abort controller is replaced without being aborted
ResetNoAbort ==
  /\ abortController < MaxGen
  /\ scheduler' =
       LET gone == { jobObj[j].schedulerTaskId :
                       j \in { k \in Range(jobs) : jobObj[k].type = "scheduled" } }
       IN  [t \in DOMAIN scheduler \ gone |-> scheduler[t]]
  /\ jobs' = ClearJobs(jobs)
  /\ abortController' = abortController + 1
  /\ UNCHANGED << clock, statusDb, mailbox, jobObj, call, listeners, lastError,
                  aborted, inv,
                  watcher, http >>

\* mutant of Reset: the run-status store is emptied
ResetClearsStore ==
  /\ abortController < MaxGen
  /\ aborted' = aborted \cup {abortController}
  /\ inv' = [i \in DOMAIN inv |->
               IF i \in AbortListeners(abortController)
                  /\ inv[i].process = "running"
               THEN [inv[i] EXCEPT !.sigterm = TRUE] ELSE inv[i]]
  /\ scheduler' =
       LET gone == { jobObj[j].schedulerTaskId :
                       j \in { k \in Range(jobs) : jobObj[k].type = "scheduled" } }
       IN  [t \in DOMAIN scheduler \ gone |-> scheduler[t]]
  /\ jobs' = ClearJobs(jobs)
  /\ abortController' = abortController + 1
  /\ statusDb' = << >>
  /\ UNCHANGED << clock, mailbox, jobObj, call, listeners, lastError,
                  watcher, http >>

\* reset(): the abort event calls every listener of the signal, which kills
\* its child (a signal to a child that has exited changes nothing)
Reset ==
  /\ abortController < MaxGen
  /\ aborted' = aborted \cup {abortController}
  /\ inv' = [i \in DOMAIN inv |->
               IF i \in AbortListeners(abortController)
                  /\ inv[i].process = "running"
               THEN [inv[i] EXCEPT !.sigterm = TRUE] ELSE inv[i]]
  /\ scheduler' =
       LET gone == { jobObj[j].schedulerTaskId :
                       j \in { k \in Range(jobs) : jobObj[k].type = "scheduled" } }
       IN  [t \in DOMAIN scheduler \ gone |-> scheduler[t]]
  /\ jobs' = ClearJobs(jobs)
  /\ abortController' = abortController + 1
  /\ UNCHANGED << clock, statusDb, mailbox, jobObj, call, listeners, lastError,
                  watcher, http >>

\* load(): chron.reset(), then the read of the chronfile is awaited
Load ==
  /\ Len(loader) < MaxLoads
  /\ Reset
  /\ loader' = Append(loader, NewLoad("main", "L79"))

\* load(): the chronfile has been read; it is parsed and checked against
\* the schema.  A failure rejects the promise of load().
LoadParse(l, file) ==
  /\ l \in DOMAIN loader
  /\ loader[l].pc = "L79"
  /\ loader' =
       IF ~file.ok
       THEN [loader EXCEPT ![l].pc = "failed", ![l].thrown = "ConfigError"]
       ELSE [loader EXCEPT ![l].config = file.entries,
                           ![l].entries = file.entries,
                           ![l].pc = IF file.entries = << >> THEN "done"
                                     ELSE "L83"]
  /\ UNCHANGED << clock, statusDb, mailbox, jobs, jobObj, call, abortController,
                  aborted, listeners, scheduler, inv, lastError,
                  watcher, http >>

\* load(): one turn of the forEach loops, which call startup() or schedule()
\* and drop the promise: an error thrown by the call rejects a promise that
\* load() does not hold.  The loops run to their end without an await; no
\* other action runs while the pc of a load() is "L83".
LoadRegister(l) ==
  /\ l \in DOMAIN loader
  /\ loader[l].pc = "L83"
  /\ LET e == Head(loader[l].entries)
     IN  \/ /\ e.type = "startup"
            /\ Startup(e.name, e.keepAlive)
         \/ /\ e.type = "scheduled"
            /\ Schedule(e.name, e.schedule, e.allowConcurrentRuns,
                        e.makeUpMissedRuns)
  /\ loader' = [loader EXCEPT
                  ![l].entries = Tail(@),
                  ![l].pc = IF Len(loader[l].entries) = 1 THEN "done" ELSE "L83",
                  ![l].rejected = IF lastError' # "none"
                                  THEN Append(@, lastError') ELSE @,
                  ![l].registered = IF Len(jobObj') > Len(jobObj)
                                    THEN @ \cup {Len(jobObj')} ELSE @]

\* POST /job/<name>/terminate: SIGTERM to the child held in job.process of
\* the job the registry has under the name.  The request changes nothing
\* when the name is unknown, when job.process is unset, or when the child
\* has exited and its status has not been read yet.
\* ---- the chronfile watcher of main (part_001:27-40)

\* the kinds of event Deno.watchFs reports
FsEventKinds == {"any", "access", "create", "modify", "remove", "other"}

\* a watcher that calls debouncedLoad() on every event
FsEventAnyKind(kind) ==
  /\ watcher.events < MaxEvents
  /\ watcher' = [watcher EXCEPT
                   !.events = @ + 1,
                   !.last = kind,
                   !.calls = @ + 1,
                   !.timer = DebounceWait]
  /\ UNCHANGED << clock, statusDb, mailbox, jobs, jobObj, call, abortController,
                  aborted, listeners, scheduler, inv, lastError, loader, http >>

\* for await (const event of watcher): one event is delivered; a "modify" or
\* "remove" event calls debouncedLoad(), which clears the pending timer and
\* sets a new one of DebounceWait milliseconds
FsEvent(kind) ==
  /\ watcher.events < MaxEvents
  /\ watcher' = [watcher EXCEPT
                   !.events = @ + 1,
                   !.last = kind,
                   !.calls = IF kind \in {"modify", "remove"} THEN @ + 1 ELSE @,
                   !.timer = IF kind \in {"modify", "remove"} THEN DebounceWait ELSE @]
  /\ UNCHANGED << clock, statusDb, mailbox, jobs, jobObj, call, abortController,
                  aborted, listeners, scheduler, inv, lastError, loader, http >>

\* time passes while the debounce timer is pending
TimerTick ==
  /\ watcher.timer # NoTime
  /\ watcher.timer > 0
  /\ watcher' = [watcher EXCEPT !.timer =
                   IF @ > DebounceWait \div TimerTicks
                   THEN @ - DebounceWait \div TimerTicks ELSE 0]
  /\ UNCHANGED << clock, statusDb, mailbox, jobs, jobObj, call, abortController,
                  aborted, listeners, scheduler, inv, lastError, loader, http >>

\* the timer expires: the debounced function is called and runs up to its
\* first await, of logStderr (part_001:29)
DebouncedLoad ==
  /\ watcher.timer = 0
  /\ Len(loader) < MaxWatchLoads
  /\ watcher' = [watcher EXCEPT !.timer = NoTime]
  /\ loader' = Append(loader, NewLoad("watcher", "L29"))
  /\ UNCHANGED << clock, statusDb, mailbox, jobs, jobObj, call, abortController,
                  aborted, listeners, scheduler, inv, lastError, http >>

\* logStderr has resolved: load() is called, resets the service and waits for
\* the text of the chronfile (part_001:31, part_002:77-81)
WatchLoad(l) ==
  /\ l \in DOMAIN loader
  /\ loader[l].pc = "L29"
  /\ Reset
  /\ loader' = [loader EXCEPT ![l].pc = "L79"]

\* the promise of load() rejected: catch (err) { console.log(err) }
\* (part_001:32-34)
WatchCatch(l) ==
  /\ l \in DOMAIN loader
  /\ loader[l].by = "watcher"
  /\ loader[l].pc = "failed"
  /\ loader' = [loader EXCEPT ![l].pc = "caught"]
  /\ watcher' = [watcher EXCEPT !.logged = Append(@, loader[l].thrown)]
  /\ UNCHANGED << clock, statusDb, mailbox, jobs, jobObj, call, abortController,
                  aborted, listeners, scheduler, inv, lastError, http >>

\* ---- the HTTP server (part_004)

\* new Response(text, { status })
TextResponse(status, text) ==
  [NoResponse EXCEPT !.status = status, !.text = text]

\* Response.json(messages)
MessagesResponse(messages) ==
  [NoResponse EXCEPT !.status = 200, !.messages = messages]

\* Mailbox.getMessages(source): findMany({ source })
GetMessages(source) == SelectSeq(mailbox, LAMBDA m : m.source = source)

\* a clearMessages that empties the mailbox
OtherMessagesNone(source) == << >>

\* what Mailbox.clearMessages(source), deleteMany({ source }), leaves
OtherMessages(source) == SelectSeq(mailbox, LAMBDA m : m.source # source)

\* what Mailbox.addMessage(source, message) inserts
NewMessage(source, message) == [source |-> source, message |-> message]

\* the first three of the runs, as { timestamp, statusCode }
RecentRuns(runs) ==
  [k \in 1..Min(3, Len(runs)) |->
     [timestamp |-> runs[k].timestamp, statusCode |-> runs[k].statusCode]]

\* the routes of #httpHandler, in the order it tries them
IsRoot(req) == req.method = "GET" /\ req.path = << >>

JobRoute(req) == ~IsRoot(req) /\ Len(req.path) = 3 /\ req.path[1] = JobSeg

MailboxRoute(req) ==
  ~IsRoot(req) /\ Len(req.path) = 2 /\ req.path[1] = MailboxSeg

\* the server takes a request when it is not in the middle of one
Received(req) == http.pc = "idle" /\ http.served < MaxRequests

\* the request is answered; kill is the child the handler has signalled
Answer(req, response) ==
  [pc |-> "idle", served |-> http.served + 1, method |-> req.method,
   path |-> req.path, body |-> req.body, job |-> 0, runs |-> << >>,
   kill |-> 0, response |-> response]

Respond(req, response) == http' = Answer(req, response)

\* GET /: the jobs and whether their process field is set
HttpRoot(req) ==
  /\ Received(req)
  /\ IsRoot(req)
  /\ Respond(req, [NoResponse EXCEPT
         !.status = 200,
         !.list = { [name |-> jobObj[j].name, running |-> jobObj[j].process # 0] :
                      j \in Range(jobs) }])
  /\ UNCHANGED << clock, statusDb, mailbox, jobs, jobObj, call, abortController,
                  aborted, listeners, scheduler, inv, lastError, loader, watcher >>

\* no pattern matches
HttpBadRequest(req) ==
  /\ Received(req)
  /\ ~IsRoot(req) /\ ~JobRoute(req) /\ ~MailboxRoute(req)
  /\ Respond(req, TextResponse(400, "Bad Request"))
  /\ UNCHANGED << clock, statusDb, mailbox, jobs, jobObj, call, abortController,
                  aborted, listeners, scheduler, inv, lastError, loader, watcher >>

\* #jobHandler: no job of that name, or a command that is none of the four
HttpJobNotFound(req) ==
  /\ Received(req)
  /\ JobRoute(req)
  /\ \/ req.path[2] \notin DOMAIN jobs
     \/ req.path[3] \notin {StatusSeg, LogsSeg, MailboxSeg, TerminateSeg}
  /\ Respond(req, TextResponse(404, "Not Found"))
  /\ UNCHANGED << clock, statusDb, mailbox, jobs, jobObj, call, abortController,
                  aborted, listeners, scheduler, inv, lastError, loader, watcher >>

\* the methods each command of #jobHandler answers
JobMethods(command) ==
  IF command = StatusSeg THEN {"GET"}
  ELSE IF command = LogsSeg THEN {"GET", "DELETE"}
  ELSE IF command = MailboxSeg THEN {"GET", "POST", "DELETE"}
  ELSE IF command = TerminateSeg THEN {"POST"}
  ELSE {}

\* the request is for command of a registered job, with a method it answers
JobCommand(req, command) ==
  /\ Received(req)
  /\ JobRoute(req)
  /\ req.path[2] \in DOMAIN jobs
  /\ req.path[3] = command

\* #jobHandler: a known command with another method
HttpJobInvalidMethod(req) ==
  /\ \E command \in {StatusSeg, LogsSeg, MailboxSeg, TerminateSeg} :
       JobCommand(req, command) /\ req.method \notin JobMethods(command)
  /\ Respond(req, TextResponse(405, "Invalid Method"))
  /\ UNCHANGED << clock, statusDb, mailbox, jobs, jobObj, call, abortController,
                  aborted, listeners, scheduler, inv, lastError, loader, watcher >>

\* GET /job/:name/status up to await getLastRuns(job.name)
HttpStatus(req) ==
  /\ JobCommand(req, StatusSeg)
  /\ req.method = "GET"
  /\ http' = [http EXCEPT !.pc = "L33", !.method = req.method,
                          !.path = req.path, !.body = req.body,
                          !.job = jobs[req.path[2]],
                          !.runs = GetLastRuns(req.path[2]),
                          !.kill = 0,
                          !.response = NoResponse]
  /\ UNCHANGED << clock, statusDb, mailbox, jobs, jobObj, call, abortController,
                  aborted, listeners, scheduler, inv, lastError, loader, watcher >>

\* GET /job/:name/status: the runs have arrived; the response is built from
\* them and from the Job as it is now
HttpStatusReply ==
  /\ http.pc = "L33"
  /\ LET job == jobObj[http.job]
     IN  http' = [http EXCEPT
           !.pc = "idle",
           !.served = @ + 1,
           !.response = [NoResponse EXCEPT
              !.status = 200,
              !.name = job.name,
              !.type = job.type,
              !.runs = RecentRuns(http.runs),
              !.nextRun = IF job.type = "scheduled"
                          THEN NextDate(job.schedule, clock) ELSE NoTime,
              !.pid = job.process]]
  /\ UNCHANGED << clock, statusDb, mailbox, jobs, jobObj, call, abortController,
                  aborted, listeners, scheduler, inv, lastError, loader, watcher >>

\* GET and DELETE /job/:name/logs: the file is served or removed, or is not
\* there (handleFsError)
HttpLogs(req, found) ==
  /\ JobCommand(req, LogsSeg)
  /\ req.method \in {"GET", "DELETE"}
  /\ Respond(req, IF ~found THEN TextResponse(404, "Not Found")
                  ELSE IF req.method = "GET" THEN TextResponse(200, "log file")
                  ELSE TextResponse(200, "Deleted log file"))
  /\ UNCHANGED << clock, statusDb, mailbox, jobs, jobObj, call, abortController,
                  aborted, listeners, scheduler, inv, lastError, loader, watcher >>

\* GET, POST and DELETE /job/:name/mailbox
HttpJobMailbox(req) ==
  /\ JobCommand(req, MailboxSeg)
  /\ LET name == jobObj[jobs[req.path[2]]].name
     IN  \/ /\ req.method = "GET"
            /\ Respond(req, MessagesResponse(GetMessages(name)))
            /\ mailbox' = mailbox
         \/ /\ req.method = "POST"
            /\ Len(mailbox) < MaxMessages
            /\ Respond(req, MessagesResponse(<< NewMessage(name, req.body) >>))
            /\ mailbox' = Append(mailbox, NewMessage(name, req.body))
         \/ /\ req.method = "DELETE"
            /\ Respond(req, MessagesResponse(GetMessages(name)))
            /\ mailbox' = OtherMessages(name)
  /\ UNCHANGED << clock, statusDb, jobs, jobObj, call, abortController,
                  aborted, listeners, scheduler, inv, lastError, loader, watcher >>

\* POST /job/:name/terminate: job.process.kill("SIGTERM") when the field is
\* set.  The signal reaches the child when it is alive; when the child has
\* exited and #executeJob has not yet seen it, kill either does nothing or
\* throws, and serve() answers 500.
HttpTerminate(req, delivered) ==
  /\ JobCommand(req, TerminateSeg)
  /\ req.method = "POST"
  /\ LET i == jobObj[jobs[req.path[2]]].process
     IN  IF i = 0
         THEN /\ delivered
              /\ Respond(req, TextResponse(200, "Job not running"))
              /\ inv' = inv
         ELSE IF inv[i].process = "running"
         THEN /\ delivered
              /\ http' = [Answer(req, TextResponse(200, "Terminated job"))
                            EXCEPT !.kill = i]
              /\ inv' = [inv EXCEPT ![i].sigterm = TRUE]
         ELSE /\ http' = [Answer(req,
                              IF delivered
                              THEN TextResponse(200, "Terminated job")
                              ELSE TextResponse(500, "Internal Server Error"))
                            EXCEPT !.kill = i]
              /\ inv' = inv
  /\ UNCHANGED << clock, statusDb, mailbox, jobs, jobObj, call,
                  abortController, aborted, listeners, scheduler, lastError,
                  loader, watcher >>

\* #mailboxHandler: GET and DELETE /mailbox/messages, /mailbox/count with
\* any method, and "Invalid Method" for everything else
HttpMailbox(req) ==
  /\ Received(req)
  /\ MailboxRoute(req)
  /\ LET command == req.path[2]
     IN  IF command = MessagesSeg /\ req.method = "GET"
         THEN /\ Respond(req, MessagesResponse(mailbox))
              /\ mailbox' = mailbox
         ELSE IF command = MessagesSeg /\ req.method = "DELETE"
         THEN /\ Respond(req, MessagesResponse(mailbox))
              /\ mailbox' = << >>
         ELSE IF command = CountSeg
         THEN /\ Respond(req, [NoResponse EXCEPT !.status = 200,
                                                 !.count = Len(mailbox)])
              /\ mailbox' = mailbox
         ELSE /\ Respond(req, TextResponse(405, "Invalid Method"))
              /\ mailbox' = mailbox
  /\ UNCHANGED << clock, statusDb, jobs, jobObj, call, abortController,
                  aborted, listeners, scheduler, inv, lastError, loader, watcher >>

\* Mailbox.addMessage(source, message), as #executeJob and the handlers
\* call it
AddMessage(source, message) ==
  /\ Len(mailbox) < MaxMessages
  /\ mailbox' = Append(mailbox, NewMessage(source, message))
  /\ UNCHANGED << clock, statusDb, jobs, jobObj, call, abortController,
                  aborted, listeners, scheduler, inv, lastError, loader,
                  watcher, http >>

\* #httpHandler: one request is taken
Http(req) ==
  \/ HttpRoot(req)
  \/ HttpJobNotFound(req)
  \/ HttpJobInvalidMethod(req)
  \/ HttpStatus(req)
  \/ \E found \in BOOLEAN : HttpLogs(req, found)
  \/ HttpJobMailbox(req)
  \/ \E delivered \in BOOLEAN : HttpTerminate(req, delivered)
  \/ HttpMailbox(req)
  \/ HttpBadRequest(req)

Terminate(name) ==
  /\ name \in DOMAIN jobs
  /\ jobObj[jobs[name]].process # 0
  /\ inv[jobObj[jobs[name]].process].process = "running"
  /\ inv' = [inv EXCEPT ![jobObj[jobs[name]].process].sigterm = TRUE]
  /\ UNCHANGED << clock, statusDb, mailbox, jobs, jobObj, call,
                  abortController, aborted, listeners, scheduler, lastError,
                  loader, watcher, http >>

\* #executeJob: the run is recorded in the database
ExecInsert(i) ==
  /\ i \in DOMAIN inv
  /\ inv[i].pc = "L226"
  /\ statusDb' = Append(statusDb,
       [id |-> i, name |-> jobObj[inv[i].job].name,
        timestamp |-> inv[i].startTime, statusCode |-> NoCode])
  /\ inv' = [inv EXCEPT ![i].pc = "L232", ![i].id = i]
  /\ UNCHANGED << clock, mailbox, jobs, jobObj, call, abortController,
                  aborted, listeners, scheduler, lastError,
                  loader, watcher, http >>

\* #executeJob: ensureDir, then Deno.open of the log file
ExecOpen(i) ==
  /\ i \in DOMAIN inv
  /\ inv[i].pc = "L232"
  /\ inv' = [inv EXCEPT ![i].pc = "L240"]
  /\ UNCHANGED << clock, statusDb, mailbox, jobs, jobObj, call,
                  abortController, aborted, listeners, scheduler, lastError,
                  loader, watcher, http >>

\* #executeJob: the log file is open; the header is written
ExecHeader(i) ==
  /\ i \in DOMAIN inv
  /\ inv[i].pc = "L240"
  /\ inv' = [inv EXCEPT ![i].pc = "L245", ![i].logFile = "open",
                         ![i].header = "pending"]
  /\ UNCHANGED << clock, statusDb, mailbox, jobs, jobObj, call,
                  abortController, aborted, listeners, scheduler, lastError,
                  loader, watcher, http >>

\* #executeJob: Deno.run, job.process, the onAbort listener
ExecSpawn(i) ==
  /\ i \in DOMAIN inv
  /\ inv[i].pc = "L245"
  /\ inv' = [inv EXCEPT ![i].pc = "L264", ![i].process = "running",
                        ![i].mailboxUrl = MailboxUrl(jobObj[inv[i].job].name)]
  /\ jobObj' = [jobObj EXCEPT ![inv[i].job].process = i]
  /\ listeners' = listeners \cup {i}
  /\ UNCHANGED << clock, statusDb, mailbox, jobs, call, abortController,
                  aborted, scheduler, lastError,
                  loader, watcher, http >>

\* the child of invocation i exits; only a signalled child dies of SIGTERM
ChildExit(i, code) ==
  /\ i \in DOMAIN inv
  /\ inv[i].process = "running"
  /\ code = 143 => inv[i].sigterm
  /\ inv' = [inv EXCEPT ![i].process = "exited", ![i].code = code]
  /\ UNCHANGED << clock, statusDb, mailbox, jobs, jobObj, call,
                  abortController, aborted, listeners, scheduler, lastError,
                  loader, watcher, http >>

\* an #executeJob that returns at the exit of the child when the signal of
\* its job is aborted
ExecExitReturnsWhenAborted(i) ==
  /\ i \in DOMAIN inv
  /\ inv[i].pc = "L264"
  /\ inv[i].process = "exited"
  /\ listeners' = listeners \ {i}
  /\ jobObj' = [jobObj EXCEPT ![inv[i].job].process = 0]
  /\ IF jobObj[inv[i].job].abortSignal \in aborted
     THEN /\ statusDb' = statusDb
          /\ inv' = [inv EXCEPT ![i].pc = "done"]
     ELSE /\ statusDb' = UpdateOne(statusDb, inv[i].id, inv[i].code)
          /\ inv' = [inv EXCEPT ![i].pc = "L269"]
  /\ UNCHANGED << clock, mailbox, jobs, call, abortController, aborted,
                  scheduler, lastError,
                  loader, watcher, http >>

\* #executeJob: process.status() has answered
ExecExit(i) ==
  /\ i \in DOMAIN inv
  /\ inv[i].pc = "L264"
  /\ inv[i].process = "exited"
  /\ listeners' = listeners \ {i}
  /\ jobObj' = [jobObj EXCEPT ![inv[i].job].process = 0]
  /\ statusDb' = UpdateOne(statusDb, inv[i].id, inv[i].code)
  /\ inv' = [inv EXCEPT ![i].pc = "L269"]
  /\ UNCHANGED << clock, mailbox, jobs, call, abortController, aborted,
                  scheduler, lastError,
                  loader, watcher, http >>

\* an #executeJob that goes on to the footer without posting the failure
ExecReportFooterOnly(i) ==
  /\ i \in DOMAIN inv
  /\ inv[i].pc = "L269"
  /\ inv' = [inv EXCEPT ![i].pc = "L280", ![i].footer = "pending"]
  /\ UNCHANGED << clock, statusDb, mailbox, jobs, jobObj, call, abortController,
                  aborted, listeners, scheduler, lastError,
                  loader, watcher, http >>

\* #executeJob: the failure is posted; writeAllString is called for the footer
ExecReport(i) ==
  /\ i \in DOMAIN inv
  /\ inv[i].pc = "L269"
  /\ mailbox' = mailbox \o FailureMessages(jobObj[inv[i].job].name, inv[i].code)
  /\ inv' = [inv EXCEPT ![i].pc = "L280", ![i].footer = "pending"]
  /\ UNCHANGED << clock, statusDb, jobs, jobObj, call, abortController,
                  aborted, listeners, scheduler, lastError,
                  loader, watcher, http >>

\* #executeJob: the log file is closed and the call returns
ExecClose(i) ==
  /\ i \in DOMAIN inv
  /\ inv[i].pc = "L280"
  /\ inv' = [inv EXCEPT ![i].pc = "done", ![i].logFile = "closed"]
  /\ UNCHANGED << clock, statusDb, mailbox, jobs, jobObj, call,
                  abortController, aborted, listeners, scheduler, lastError,
                  loader, watcher, http >>

\* ---- operations of #executeJob that fail.  #executeJob has no try/catch:
\* an awaited promise that rejects, or a call that throws, ends the
\* invocation there and rejects its promise.

\* await this.#statusDb.insertOne(...) rejects (part_003:231)
ExecInsertFails(i) ==
  /\ i \in DOMAIN inv
  /\ inv[i].pc = "L226"
  /\ inv' = [inv EXCEPT ![i].pc = "threw", ![i].failed = @ \cup {"insertOne"}]
  /\ UNCHANGED << clock, statusDb, mailbox, jobs, jobObj, call, abortController,
                  aborted, listeners, scheduler, lastError,
                  loader, watcher, http >>

\* Deno.run throws (part_003:253): the log file stays open
ExecSpawnFails(i) ==
  /\ i \in DOMAIN inv
  /\ inv[i].pc = "L245"
  /\ inv' = [inv EXCEPT ![i].pc = "threw", ![i].failed = @ \cup {"Deno.run"}]
  /\ UNCHANGED << clock, statusDb, mailbox, jobs, jobObj, call, abortController,
                  aborted, listeners, scheduler, lastError,
                  loader, watcher, http >>

\* process.status() has answered; the listener is removed and job.process
\* cleared; await this.#statusDb.updateOne(...) rejects (part_003:265-269)
ExecUpdateFails(i) ==
  /\ i \in DOMAIN inv
  /\ inv[i].pc = "L264"
  /\ inv[i].process = "exited"
  /\ listeners' = listeners \ {i}
  /\ jobObj' = [jobObj EXCEPT ![inv[i].job].process = 0]
  /\ inv' = [inv EXCEPT ![i].pc = "threw", ![i].failed = @ \cup {"updateOne"}]
  /\ UNCHANGED << clock, statusDb, mailbox, jobs, call, abortController, aborted,
                  scheduler, lastError,
                  loader, watcher, http >>

\* this.#mailbox.addMessage(...) fails (part_003:273): its promise is not
\* awaited, the footer is written
ExecPostFails(i) ==
  /\ i \in DOMAIN inv
  /\ inv[i].pc = "L269"
  /\ inv[i].code # 0
  /\ inv' = [inv EXCEPT ![i].pc = "L280", ![i].failed = @ \cup {"addMessage"},
                         ![i].footer = "pending"]
  /\ UNCHANGED << clock, statusDb, mailbox, jobs, jobObj, call, abortController,
                  aborted, listeners, scheduler, lastError,
                  loader, watcher, http >>

\* startup(): await this.#executeJob(job) throws (part_003:122); the loop
\* is left and the promise of startup() rejects
StartupRejects(j) ==
  /\ j \in DOMAIN call
  /\ jobObj[j].type = "startup"
  /\ call[j].pc = "L122"
  /\ inv[call[j].awaiting].pc = "threw"
  /\ call' = [call EXCEPT ![j].pc = "rejected"]
  /\ UNCHANGED << clock, statusDb, mailbox, jobs, jobObj, abortController,
                  aborted, listeners, scheduler, inv, lastError,
                  loader, watcher, http >>

\* writeAllString calls writeAll(writer, encoded) and returns without
\* awaiting it (mailbox.ts:50-56): the write it issued is pending when the
\* caller goes on.  The write completes at any later moment; on a handle
\* closed meanwhile it completes or fails.
WriteOutcomes(i) ==
  IF inv[i].logFile = "closed" THEN {"written", "failed"} ELSE {"written"}

LogWritten(i) ==
  /\ i \in DOMAIN inv
  /\ \E outcome \in WriteOutcomes(i) :
       \/ /\ inv[i].header = "pending"
          /\ inv' = [inv EXCEPT ![i].header = outcome]
       \/ /\ inv[i].header # "pending"
          /\ inv[i].footer = "pending"
          /\ inv' = [inv EXCEPT ![i].footer = outcome]
  /\ UNCHANGED << clock, statusDb, mailbox, jobs, jobObj, call, abortController,
                  aborted, listeners, scheduler, lastError,
                  loader, watcher, http >>

\* the runtime has waited for the exited child of invocation i: the child
\* is reaped, and the promise of process.status() (part_003:264) is resolved
\* but its continuation has not run yet
ChildReaped(i) ==
  /\ i \in DOMAIN inv
  /\ inv[i].pc = "L264"
  /\ inv[i].process = "exited"
  /\ ~inv[i].reaped
  /\ inv' = [inv EXCEPT ![i].reaped = TRUE]
  /\ UNCHANGED << clock, statusDb, mailbox, jobs, jobObj, call, abortController,
                  aborted, listeners, scheduler, lastError,
                  loader, watcher, http >>

\* the actions of one invocation of #executeJob and of its child
Execute(i) ==
  \/ ExecInsert(i)
  \/ ExecOpen(i)
  \/ ExecHeader(i)
  \/ ExecSpawn(i)
  \/ \E code \in ExitCodes : ChildExit(i, code)
  \/ ExecExit(i)
  \/ ExecReport(i)
  \/ ExecClose(i)

\* The supervisor running the jobs of one name: registrations, cron firings,
\* invocations, children and reset().
Next ==
  \/ Tick
  \/ \E keepAlive \in BOOLEAN :
       Len(jobObj) < MaxRunJobs /\ Startup(<<"a">>, keepAlive)
         /\ UNCHANGED loader
  \/ \E j \in 1..MaxJobs : StartupResume(j)
  \/ \E j \in 1..MaxJobs : StartupWake(j)
  \/ \E allow \in BOOLEAN :
       Len(jobObj) < MaxRunJobs /\ Schedule(<<"a">>, EveryMinute, allow, MakeUpAll)
         /\ UNCHANGED loader
  \/ \E j \in 1..MaxJobs : ScheduleCount(j)
  \/ \E j \in 1..MaxJobs : ScheduleCatchUp(j)
  \/ \E j \in 1..MaxJobs : CronFire(j)
  \/ abortController < MaxRunGen /\ Reset /\ UNCHANGED loader
  \/ \E i \in 1..MaxInv : Execute(i)

Spec == Init /\ [][Next]_vars

\* The registry under every registration input and reset(); the registered
\* jobs are not run.
NextReg ==
  \/ \E name \in NameInputs, keepAlive \in BOOLEAN : Startup(name, keepAlive)
         /\ UNCHANGED loader
  \/ \E name \in NameInputs, expr \in CronInputs, allow \in BOOLEAN,
        makeUp \in {MakeUp(0), MakeUpAll} : Schedule(name, expr, allow, makeUp)
         /\ UNCHANGED loader
  \/ abortController < MaxRunGen /\ Reset /\ UNCHANGED loader

SpecReg == Init /\ [][NextReg]_vars

\* schedule() under every cron expression and makeUpMissedRuns, with the
\* invocations it makes up, the cron firings and reset().
NextCatchUp ==
  \/ Tick
  \/ \E expr \in CronInputs, makeUp \in MakeUpInputs :
       Len(jobObj) < MaxRunJobs /\ Schedule(<<"a">>, expr, FALSE, makeUp)
         /\ UNCHANGED loader
  \/ \E j \in 1..MaxJobs : ScheduleCount(j)
  \/ \E j \in 1..MaxJobs : ScheduleCatchUp(j)
  \/ \E j \in 1..MaxJobs : CronFire(j)
  \/ abortController < MaxRunGen /\ Reset /\ UNCHANGED loader
  \/ \E i \in 1..MaxInv : Execute(i)

SpecCatchUp == Init /\ [][NextCatchUp]_vars

\* The startup jobs of one name: the loops of startup(), their invocations
\* and children, the terminate request and reset().
NextStartup ==
  \/ \E keepAlive \in BOOLEAN : Startup(<<"a">>, keepAlive)
         /\ UNCHANGED loader
  \/ \E j \in 1..MaxJobs : StartupResume(j)
  \/ \E j \in 1..MaxJobs : StartupWake(j)
  \/ Terminate(<<"a">>)
  \/ abortController < MaxRunGen /\ Reset /\ UNCHANGED loader
  \/ \E i \in 1..MaxInv : Execute(i)

SpecStartup == Init /\ [][NextStartup]_vars

\* The event loop runs every continuation that is ready, and the I/O that
\* #executeJob awaits completes.  Nothing is assumed of the children: a
\* child may run for ever.
Progress ==
  /\ \A j \in 1..MaxJobs :
       WF_vars(StartupResume(j)) /\ WF_vars(StartupWake(j))
  /\ \A i \in 1..MaxInv :
       /\ WF_vars(ExecInsert(i)) /\ WF_vars(ExecOpen(i))
       /\ WF_vars(ExecHeader(i)) /\ WF_vars(ExecSpawn(i))
       /\ WF_vars(ExecExit(i)) /\ WF_vars(ExecReport(i))
       /\ WF_vars(ExecClose(i))

FairStartup == Init /\ [][NextStartup]_vars /\ Progress

\* #validateName under every name of NameStrings, called by startup() and
\* by schedule(); a call that would register a job beyond the bound is left
\* out, a call that fails is not.
NextNames ==
  \/ \E name \in NameStrings :
       /\ Len(jobObj) < MaxRunJobs \/ ValidateName(name) # "none"
       /\ Startup(name, FALSE)
       /\ UNCHANGED loader
  \/ \E name \in NameStrings, expr \in {EveryMinute, NoCron} :
       /\ Len(jobObj) < MaxRunJobs \/ ValidateName(name) # "none"
       /\ Schedule(name, expr, FALSE, MakeUp(0))
       /\ UNCHANGED loader
  \/ abortController < MaxRunGen /\ Reset /\ UNCHANGED loader

SpecNames == Init /\ [][NextNames]_vars

\* no load() is in the middle of its forEach loops
Running == \A l \in DOMAIN loader : loader[l].pc # "L83"

\* load() of every chronfile of Chronfiles on a supervisor that may already
\* hold a job, with the startup loops, the schedule() calls and the
\* invocations.  Time does not pass and no cron task fires.
NextLoad ==
  \/ /\ loader = << >>
     /\ Len(jobObj) < MaxRunJobs
     /\ Startup(<<"a">>, TRUE)
     /\ UNCHANGED loader
  \/ /\ loader = << >>
     /\ Len(jobObj) < MaxRunJobs
     /\ Schedule(<<"b">>, EveryMinute, FALSE, MakeUp(0))
     /\ UNCHANGED loader
  \/ Running /\ Load
  \/ Running /\ \E l \in 1..MaxLoads, file \in Chronfiles : LoadParse(l, file)
  \/ \E l \in 1..MaxLoads : LoadRegister(l)
  \/ Running /\ \E j \in 1..MaxJobs : StartupResume(j)
  \/ Running /\ \E j \in 1..MaxJobs : StartupWake(j)
  \/ Running /\ \E j \in 1..MaxJobs : ScheduleCount(j)
  \/ Running /\ \E i \in 1..MaxInv : Execute(i)

SpecLoad == Init /\ [][NextLoad]_vars

\* every load() made so far has completed or failed
Settled == \A l \in DOMAIN loader : loader[l].pc \in {"done", "failed"}

\* load() called again and again on the same supervisor, each call after
\* the one before it has completed, with the startup loops, the schedule()
\* calls and the invocations of the jobs it registers.
NextReload ==
  \/ Settled /\ Load
  \/ Running /\ \E l \in 1..MaxLoads, file \in Chronfiles : LoadParse(l, file)
  \/ \E l \in 1..MaxLoads : LoadRegister(l)
  \/ Running /\ \E j \in 1..MaxJobs : StartupResume(j)
  \/ Running /\ \E j \in 1..MaxJobs : StartupWake(j)
  \/ Running /\ \E j \in 1..MaxJobs : ScheduleCount(j)
  \/ Running /\ \E i \in 1..MaxInv : Execute(i)

SpecReload == Init /\ [][NextReload]_vars

\* ---- two scheduled jobs, their cron firings and their children
NextCron ==
  \/ Tick
  \/ \E name \in {<<"a">>, <<"b">>} :
       Schedule(name, EveryMinute, FALSE, MakeUp(0)) /\ UNCHANGED loader
  \/ \E j \in 1..MaxJobs : ScheduleCount(j)
  \/ \E j \in 1..MaxJobs : CronFire(j)
  \/ \E i \in 1..MaxInv : Execute(i)

SpecCron == Init /\ [][NextCron]_vars

\* ---- startup jobs and the writes to their log files
NextLog ==
  \/ \E keepAlive \in BOOLEAN :
       Len(jobObj) < MaxRunJobs /\ Startup(<<"a">>, keepAlive)
         /\ UNCHANGED loader
  \/ \E j \in 1..MaxJobs : StartupResume(j)
  \/ \E j \in 1..MaxJobs : StartupWake(j)
  \/ \E i \in 1..MaxInv : Execute(i)
  \/ \E i \in 1..MaxInv : LogWritten(i)

SpecLog == Init /\ [][NextLog]_vars

\* ---- startup jobs, reset() and the reaping of exited children
NextReap ==
  \/ \E keepAlive \in BOOLEAN :
       Len(jobObj) < MaxRunJobs /\ Startup(<<"a">>, keepAlive)
         /\ UNCHANGED loader
  \/ \E j \in 1..MaxJobs : StartupResume(j)
  \/ \E j \in 1..MaxJobs : StartupWake(j)
  \/ abortController < MaxRunGen /\ Reset /\ UNCHANGED loader
  \/ \E i \in 1..MaxInv : Execute(i)
  \/ \E i \in 1..MaxInv : ChildReaped(i)

SpecReap == Init /\ [][NextReap]_vars

\* ---- a scheduled job registered again after reset(), with its make-up runs
NextAgain ==
  \/ Tick
  \/ Schedule(<<"a">>, EveryMinute, FALSE, MakeUpAll) /\ UNCHANGED loader
  \/ \E j \in 1..MaxJobs : ScheduleCount(j)
  \/ \E j \in 1..MaxJobs : ScheduleCatchUp(j)
  \/ \E j \in 1..MaxJobs : CronFire(j)
  \/ abortController < MaxRunGen /\ Reset /\ UNCHANGED loader
  \/ \E i \in 1..MaxInv : Execute(i)

SpecAgain == Init /\ [][NextAgain]_vars

\* ---- startup jobs whose store writes and spawns may fail
NextFaults ==
  \/ \E keepAlive \in BOOLEAN :
       Len(jobObj) < MaxRunJobs /\ Startup(<<"a">>, keepAlive)
         /\ UNCHANGED loader
  \/ \E j \in 1..MaxJobs : StartupResume(j)
  \/ \E j \in 1..MaxJobs : StartupWake(j)
  \/ \E j \in 1..MaxJobs : StartupRejects(j)
  \/ abortController < MaxRunGen /\ Reset /\ UNCHANGED loader
  \/ \E i \in 1..MaxInv : Execute(i)
  \/ \E i \in 1..MaxInv : ExecInsertFails(i)
  \/ \E i \in 1..MaxInv : ExecSpawnFails(i)
  \/ \E i \in 1..MaxInv : ExecUpdateFails(i)
  \/ \E i \in 1..MaxInv : ExecPostFails(i)

SpecFaults == Init /\ [][NextFaults]_vars

\* ---- the HTTP server next to a scheduled job that runs
RunPaths ==
  { <<JobSeg, <<"a">>, StatusSeg>>, <<JobSeg, <<"a">>, TerminateSeg>>,
    <<JobSeg, <<"b">>, TerminateSeg>>, MailboxUrl(<<"a">>) }

RunRequests == [method : {"GET", "POST"}, path : RunPaths, body : {<<"hello">>}]

NextHttp ==
  \/ Tick
  \/ \E allow \in BOOLEAN :
       Len(jobObj) < MaxRunJobs /\ Schedule(<<"a">>, EveryMinute, allow, MakeUp(0))
         /\ UNCHANGED loader
  \/ \E j \in 1..MaxJobs : ScheduleCount(j)
  \/ \E j \in 1..MaxJobs : CronFire(j)
  \/ \E i \in 1..MaxInv : Execute(i)
  \/ \E req \in RunRequests : HttpJobNotFound(req)
  \/ \E req \in RunRequests : HttpJobInvalidMethod(req)
  \/ \E req \in RunRequests : HttpStatus(req)
  \/ HttpStatusReply
  \/ \E req \in RunRequests, delivered \in BOOLEAN : HttpTerminate(req, delivered)
  \/ \E req \in RunRequests : HttpMailbox(req)

SpecHttp == Init /\ [][NextHttp]_vars

\* ---- the HTTP server next to registrations: every route and method
NextRoutes ==
  \/ \E keepAlive \in BOOLEAN :
       Len(jobObj) < MaxRunJobs /\ Startup(<<"a">>, keepAlive)
         /\ UNCHANGED loader
  \/ Len(jobObj) < MaxRunJobs /\ Schedule(<<"a">>, EveryMinute, FALSE, MakeUp(0))
       /\ UNCHANGED loader
  \/ \E req \in Requests : Http(req)
  \/ HttpStatusReply

SpecRoutes == Init /\ [][NextRoutes]_vars

\* ---- the mailbox: messages of the jobs and of @errors, read and cleared
\* over HTTP
MailboxRequests ==
  [method : {"GET", "POST", "DELETE"},
   path : { <<JobSeg, <<"a">>, MailboxSeg>>, <<MailboxSeg, MessagesSeg>>,
            <<MailboxSeg, CountSeg>> },
   body : Bodies]

NextMailbox ==
  \/ Len(jobObj) < MaxRunJobs /\ Startup(<<"a">>, TRUE) /\ UNCHANGED loader
  \/ \E source \in {ErrorsSource, <<"b">>} : AddMessage(source, <<"hello">>)
  \/ \E req \in MailboxRequests : HttpJobMailbox(req)
  \/ \E req \in MailboxRequests : HttpMailbox(req)

SpecMailbox == Init /\ [][NextMailbox]_vars

\* ---- main: the first load(), then the watcher.  The first load is awaited
\* at the top level (part_001:24): the watcher is set up once it has resolved.
Watching == loader # << >> /\ loader[1].pc = "done"

\* the chronfile has no more entries than the bounds leave room for
Fits(file) ==
  /\ Len(jobObj) + Len(file.entries) <= MaxJobs
  /\ Len(inv) + Len(file.entries) <= MaxInv

NextWatch ==
  \/ loader = << >> /\ Load
  \/ Running /\ \E l \in 1..MaxWatchLoads, file \in Chronfiles :
                  Fits(file) /\ LoadParse(l, file)
  \/ \E l \in 1..MaxWatchLoads : LoadRegister(l)
  \/ Running /\ Watching /\ \E kind \in FsEventKinds : FsEvent(kind)
  \/ Running /\ TimerTick
  \/ Running /\ DebouncedLoad
  \/ Running /\ \E l \in 1..MaxWatchLoads : WatchLoad(l)
  \/ Running /\ \E l \in 1..MaxWatchLoads : WatchCatch(l)

SpecWatch == Init /\ [][NextWatch]_vars

\* the timer runs down and fires, the awaits of the debounced function
\* resolve, and the synchronous loops of load() run to their end
WatchProgress ==
  /\ WF_vars(Running /\ TimerTick)
  /\ WF_vars(Running /\ DebouncedLoad)
  /\ \A l \in 1..MaxWatchLoads : WF_vars(Running /\ WatchLoad(l))
  /\ \A l \in 1..MaxWatchLoads : WF_vars(LoadRegister(l))

FairWatch == SpecWatch /\ WatchProgress

\* ------------------------------------------------------------- claims
JobsOfKind(type) == { j \in DOMAIN jobObj : jobObj[j].type = type }

\* the children of job j that are alive
LiveChildren(j) ==
  { i \in DOMAIN inv : inv[i].job = j /\ inv[i].process = "running" }

\* the children of job j whose exit #executeJob has not seen yet
AwaitedChildren(j) ==
  { i \in DOMAIN inv : inv[i].job = j /\ inv[i].pc = "L264" }

\* the invocations that spawn their child in this step
SpawnsNow(i) ==
  /\ i \in DOMAIN inv
  /\ inv[i].process = "none"
  /\ inv'[i].process = "running"

\* the messages this step adds to the mailbox
AddedMessages ==
  IF Len(mailbox') > Len(mailbox)
  THEN SubSeq(mailbox', Len(mailbox) + 1, Len(mailbox'))
  ELSE << >>

AddedErrors == SelectSeq(AddedMessages, LAMBDA m : m.source = ErrorsSource)

IsReset == abortController' # abortController

\* C1: a scheduled job registered with allowConcurrentRuns = false never has
\* two live children at once, whatever the interleaving of cron firings and
\* catch-up invocations.
C1_AtMostOneChild ==
  \A j \in JobsOfKind("scheduled") :
    ~call[j].allowConcurrentRuns => Cardinality(LiveChildren(j)) <= 1

\* C2: no invocation spawns a child once the abort signal of its job is
\* aborted, i.e. after the reset() that ended the job's generation.
C2_NoSpawnAfterReset ==
  [][\A i \in DOMAIN inv :
       SpawnsNow(i) => jobObj[inv[i].job].abortSignal \notin aborted]_vars

\* C3: reset() sends SIGTERM to every live child of every job of the current
\* generation, each of several concurrent children included, and returns
\* while they are still running.
C3_ResetSignalsEveryChild ==
  [][IsReset =>
       \A i \in DOMAIN inv :
         (/\ inv[i].process = "running"
          /\ jobObj[inv[i].job].abortSignal = abortController)
         => /\ inv'[i].sigterm
            /\ inv'[i].process = "running"
            /\ inv'[i].pc = inv[i].pc]_vars

C3_Witness ==
  \E i1, i2 \in DOMAIN inv :
    /\ i1 # i2
    /\ inv[i1].job = inv[i2].job
    /\ call[inv[i1].job].allowConcurrentRuns
    /\ jobObj[inv[i1].job].abortSignal \in aborted
    /\ inv[i1].process = "running" /\ inv[i1].sigterm
    /\ inv[i2].process = "running" /\ inv[i2].sigterm

\* C4: job.process is set exactly when a child of the job has been spawned
\* and its exit not yet been seen, for every job.
C4_ProcessIffChild ==
  \A j \in DOMAIN jobObj :
    (jobObj[j].process # 0) <=> (AwaitedChildren(j) # {})

\* C5: the registry holds exactly the jobs created since the last reset()
\* (those that captured the current abort controller), under their names,
\* and no two of them have the same name.
C5_RegistryIsCurrentGeneration ==
  LET current == { j \in DOMAIN jobObj : jobObj[j].abortSignal = abortController }
  IN  /\ DOMAIN jobs = { jobObj[j].name : j \in current }
      /\ Range(jobs) = current
      /\ \A name \in DOMAIN jobs : jobObj[jobs[name]].name = name
      /\ \A j1, j2 \in current : jobObj[j1].name = jobObj[j2].name => j1 = j2

C5_Witness ==
  /\ abortController > 0
  /\ Len(jobObj) = 2
  /\ jobObj[1].name = jobObj[2].name
  /\ DOMAIN jobs = { jobObj[2].name }
  /\ lastError = "DuplicateName"

\* the run-status entries of invocation i
EntriesOf(i) == { k \in DOMAIN statusDb : statusDb[k].id = inv[i].id }

C6_Entries ==
  \A i \in DOMAIN inv :
    inv[i].process # "none" =>
      /\ Cardinality(EntriesOf(i)) = 1
      /\ \A k \in EntriesOf(i) :
           /\ statusDb[k].name = jobObj[inv[i].job].name
           /\ inv[i].pc = "L264" => statusDb[k].statusCode = NoCode
           /\ inv[i].pc # "L264" => statusDb[k].statusCode = inv[i].code

C6_Step ==
  /\ Len(statusDb') <= Len(statusDb) + 1
  /\ \A k \in DOMAIN statusDb :
       /\ k \in DOMAIN statusDb'
       /\ statusDb[k].statusCode # NoCode => statusDb'[k] = statusDb[k]
       /\ statusDb'[k] # statusDb[k] =>
            \E i \in DOMAIN inv :
              /\ inv[i].id = statusDb[k].id
              /\ inv[i].process = "exited"
              /\ inv[i].pc = "L264" /\ inv'[i].pc = "L269"
              /\ statusDb'[k] = [statusDb[k] EXCEPT !.statusCode = inv[i].code]
  /\ \A k \in DOMAIN statusDb' \ DOMAIN statusDb :
       \E i \in DOMAIN inv :
         /\ inv[i].process = "none" /\ inv'[i].process = "none"
         /\ inv[i].id = 0 /\ inv'[i].id = statusDb'[k].id
         /\ statusDb'[k].statusCode = NoCode
         /\ \A m \in DOMAIN statusDb : statusDb[m].id # statusDb'[k].id
  /\ \A i \in DOMAIN inv :
       /\ SpawnsNow(i) => EntriesOf(i) # {}
       /\ (inv[i].pc = "L264" /\ inv'[i].pc # "L264") =>
            \E k \in EntriesOf(i) : statusDb'[k].statusCode = inv[i].code

\* C6: every spawned child has exactly one run-status entry, created without
\* a status code before the child is launched and given the exit code once,
\* when the exit is seen; an entry that has a status code never changes.
C6_OneEntryPerSpawn == []C6_Entries /\ [][C6_Step]_vars

C6_Witness ==
  \E i1, i2 \in DOMAIN inv :
    /\ i1 # i2
    /\ inv[i1].job = inv[i2].job
    /\ inv[i1].pc = "done" /\ inv[i1].code = 1
    /\ inv[i2].pc = "L264"
    /\ Len(statusDb) = 3

\* C7: the step in which an invocation passes from the status update to the
\* footer adds the one message '<name> failed with status code <code>' of
\* source @errors when the exit code is not 0 and none when it is 0; no
\* other step adds an @errors message, and an invocation passes there once.
C7_ErrorsMatchFailures ==
  [][LET reporting == { i \in DOMAIN inv :
                          inv[i].pc = "L269" /\ inv'[i].pc # "L269" }
     IN  /\ reporting = {} => AddedErrors = << >>
         /\ \A i \in reporting :
              AddedErrors =
                IF inv[i].code = 0 THEN << >>
                ELSE << [source |-> ErrorsSource,
                         message |-> << jobObj[inv[i].job].name,
                                        "failed with status code",
                                        inv[i].code >>] >>
         /\ \A i \in DOMAIN inv :
              inv[i].pc \in {"L280", "done", "cancelled"} => inv'[i].pc # "L269"]_vars

C7_Witness ==
  \E i1, i2 \in DOMAIN inv :
    /\ inv[i1].pc = "done" /\ inv[i1].code = 1
    /\ inv[i2].pc = "done" /\ inv[i2].code = 0
    /\ Len(mailbox) = 1
    /\ mailbox[1].source = ErrorsSource

\* a child that reset() signalled and that died of the signal
KilledByReset(i) ==
  /\ inv[i].sigterm
  /\ inv[i].code = 143
  /\ jobObj[inv[i].job].abortSignal \in aborted

\* C8 as stated: neither reset() nor the death of a child it signalled adds
\* a message to the @errors mailbox.
C8_CancellationNeverReported ==
  [][/\ IsReset => AddedErrors = << >>
     /\ \A i \in DOMAIN inv :
          (KilledByReset(i) /\ inv[i].pc # inv'[i].pc) => AddedErrors = << >>]_vars

\* C8 amended: reset() adds no message, an entry into the execution path
\* under an aborted signal returns at once and adds none, and the invocation
\* of a child that died of the SIGTERM of reset() posts the failure message
\* of its exit code like any other failed invocation.
C8_OnlyTheCancelIsSilent ==
  [][/\ IsReset => mailbox' = mailbox
     /\ \A i \in DOMAIN inv' \ DOMAIN inv :
          jobObj'[inv'[i].job].abortSignal \in aborted =>
            /\ inv'[i].pc = "cancelled"
            /\ mailbox' = mailbox
     /\ \A i \in DOMAIN inv : inv[i].pc = "cancelled" => inv'[i] = inv[i]
     /\ \A i \in DOMAIN inv :
          (KilledByReset(i) /\ inv[i].pc = "L269" /\ inv'[i].pc # "L269") =>
            /\ Len(AddedErrors) = 1
            /\ AddedErrors[1].message[3] = 143]_vars

C8_Witness ==
  \E i \in DOMAIN inv :
    /\ KilledByReset(i)
    /\ inv[i].pc = "done"
    /\ Len(mailbox) = 1
    /\ mailbox[1].message[3] = 143

\* the cron occurrences strictly after t and not after now
Occurrences(cron, t, now) ==
  { u \in 0..MaxTime : u > t /\ u <= now /\ (u % cron.cycle) \in cron.minutes }

\* the greatest timestamp among the run-status entries of a name
MaxStamp(name) ==
  LET stamps == { statusDb[k].timestamp :
                    k \in { m \in DOMAIN statusDb : statusDb[m].name = name } }
  IN  IF stamps = {} THEN NoTime
      ELSE CHOOSE t \in stamps : \A u \in stamps : u <= t

\* the schedule() calls that have counted the missed runs
Counted == { j \in JobsOfKind("scheduled") : call[j].pc # "L173" }

C9_Counts ==
  \A j \in Counted :
    call[j].lastRunTime # NoTime =>
      LET M == Cardinality(Occurrences(jobObj[j].schedule,
                                       call[j].lastRunTime, call[j].now))
          C == IF call[j].makeUpMissedRuns.all THEN M
               ELSE IF M < call[j].makeUpMissedRuns.n THEN M
               ELSE call[j].makeUpMissedRuns.n
      IN  /\ call[j].missedRuns = M
          /\ call[j].makeUpRuns = C
          /\ call[j].entered <= C
          /\ call[j].pc = "done" => call[j].entered = C

C9_Step ==
  /\ \A j \in DOMAIN call' \ DOMAIN call :
       jobObj'[j].type = "scheduled" =>
         call'[j].lastRunTime = MaxStamp(jobObj'[j].name)
  /\ \A j \in DOMAIN call :
       /\ call'[j].lastRunTime = call[j].lastRunTime
       /\ call'[j].entered # call[j].entered =>
            /\ call'[j].entered = call[j].entered + 1
            /\ Len(inv') = Len(inv) + 1
            /\ inv'[Len(inv')].job = j
            /\ inv'[Len(inv')].by = "catchup"

\* C9: schedule() counts M, the cron occurrences strictly after the most
\* recent run-status timestamp of the name and not after now, makes up
\* C = M runs under "all" and min(M, makeUpMissedRuns) otherwise, and has
\* entered the execution path exactly C times when it returns.
C9_CatchUpCount == []C9_Counts /\ [][C9_Step]_vars

C9_Witness ==
  \E j \in Counted :
    /\ call[j].pc = "done"
    /\ call[j].lastRunTime = 0
    /\ call[j].missedRuns = 2
    /\ call[j].makeUpMissedRuns = MakeUp(1)
    /\ call[j].entered = 1

C10_NoRunNoCatchUp ==
  \A j \in JobsOfKind("scheduled") :
    call[j].lastRunTime = NoTime =>
      /\ call[j].makeUpRuns = 0
      /\ call[j].entered = 0
      /\ call[j].pc \in {"L173", "done"}

C10_Step ==
  \A j \in DOMAIN call' \ DOMAIN call :
    (/\ jobObj'[j].type = "scheduled"
     /\ \A k \in DOMAIN statusDb : statusDb[k].name # jobObj'[j].name)
    => call'[j].lastRunTime = NoTime

\* C10: a schedule() call that finds no run-status entry of the name makes
\* up no run, whatever makeUpMissedRuns is.
C10_NoEntryNoCatchUp == []C10_NoRunNoCatchUp /\ [][C10_Step]_vars

C10_Witness ==
  \E j \in JobsOfKind("scheduled") :
    /\ call[j].lastRunTime = NoTime
    /\ call[j].makeUpMissedRuns = MakeUpAll
    /\ jobObj[j].schedule = EveryMinute
    /\ call[j].pc = "done"
    /\ call[j].now = 2
    /\ statusDb = << >>

\* the invocations the catch-up loop of schedule() call j has made
CatchUps(j) == { i \in DOMAIN inv : inv[i].job = j /\ inv[i].by = "catchup" }

\* C11: the catch-up invocations of one schedule() call run one after the
\* other: when a later one has entered the execution path every earlier one
\* has returned (its child has exited, the status is stored, the log file is
\* closed), and the call has not returned while one of them is unfinished.
C11_CatchUpSequential ==
  \A j \in JobsOfKind("scheduled") :
    /\ \A i1, i2 \in CatchUps(j) :
         i1 < i2 =>
           /\ inv[i1].pc \in {"done", "cancelled"}
           /\ inv[i1].process # "running"
           /\ inv[i1].logFile # "open"
    /\ call[j].pc = "done" =>
         \A i \in CatchUps(j) : inv[i].pc \in {"done", "cancelled"}

C11_Witness ==
  \E j \in JobsOfKind("scheduled") :
    /\ call[j].pc = "done"
    /\ Cardinality(CatchUps(j)) = 2
    /\ \A i \in CatchUps(j) : inv[i].pc = "done" /\ inv[i].process = "exited"

\* the scheduler tasks that are called in this step
FiresNow ==
  { j \in DOMAIN scheduler \cap DOMAIN scheduler' : scheduler'[j] # scheduler[j] }

\* C12: a cron firing of a job whose process field is set and whose
\* allowConcurrentRuns is false changes neither the run-status store, the
\* mailbox, the log files, the invocations nor the children; any other
\* firing enters the execution path once, for that job, and does nothing else.
C12_SkipOrInvoke ==
  [][\A j \in FiresNow :
       IF jobObj[j].process # 0 /\ ~call[j].allowConcurrentRuns
       THEN /\ statusDb' = statusDb
            /\ mailbox' = mailbox
            /\ inv' = inv
            /\ jobObj' = jobObj
            /\ listeners' = listeners
       ELSE /\ Len(inv') = Len(inv) + 1
            /\ inv'[Len(inv')].job = j
            /\ inv'[Len(inv')].by = "cron"
            /\ inv'[Len(inv')].pc \in {"L226", "cancelled"}
            /\ \A i \in DOMAIN inv : inv'[i] = inv[i]
            /\ statusDb' = statusDb
            /\ mailbox' = mailbox
            /\ jobObj' = jobObj]_vars

\* the task has fired at minute 2 while the child of a catch-up invocation
\* was running, and no invocation was made for it
C12_Witness ==
  \E j \in JobsOfKind("scheduled") :
    /\ ~call[j].allowConcurrentRuns
    /\ call[j].now \in {0, 1}
    /\ clock = 2
    /\ j \in DOMAIN scheduler
    /\ scheduler[j] = 3
    /\ jobObj[j].process # 0
    /\ inv # << >>
    /\ \A i \in DOMAIN inv : inv[i].by = "catchup"

\* the child of invocation i, made by the loop of a keepAlive startup job,
\* has exited
KeptAliveExit(i) ==
  /\ i \in DOMAIN inv
  /\ inv[i].by = "startup"
  /\ call[inv[i].job].keepAlive
  /\ inv[i].process = "exited"

\* a later invocation of the job of invocation i has spawned its child
Respawned(i) ==
  /\ i \in DOMAIN inv
  /\ \E i2 \in DOMAIN inv :
       i2 > i /\ inv[i2].job = inv[i].job /\ inv[i2].process # "none"

\* reset() has aborted the signal of the job of invocation i
GenerationReset(i) ==
  /\ i \in DOMAIN inv
  /\ jobObj[inv[i].job].abortSignal \in aborted

\* C13: when the child of a startup job registered with keepAlive = true
\* exits, with any status code and also when the terminate request killed
\* it, then either the loop spawns a new child of the job or reset() has
\* aborted the job's signal.  Stated of every invocation after which the
\* model has room for another one.
C13_KeepAliveRespawns ==
  \A i \in 1..(MaxInv - 1) :
    KeptAliveExit(i) ~> (Respawned(i) \/ GenerationReset(i))

\* the child of the first invocation died of the SIGTERM of a terminate
\* request, and the loop has spawned the next child
C13_Witness ==
  \E i1, i2 \in DOMAIN inv :
    /\ i1 < i2
    /\ inv[i1].job = inv[i2].job
    /\ KeptAliveExit(i1)
    /\ inv[i1].sigterm /\ inv[i1].code = 143
    /\ jobObj[inv[i1].job].abortSignal \notin aborted
    /\ inv[i2].by = "startup"
    /\ inv[i2].process = "running"

\* the invocations of job j
InvocationsOf(j) == { i \in DOMAIN inv : inv[i].job = j }

\* the startup() calls made with keepAlive = false
RunOnce == { j \in JobsOfKind("startup") : ~call[j].keepAlive }

C14_Once ==
  \A j \in RunOnce :
    /\ Cardinality(InvocationsOf(j)) <= 1
    /\ call[j].pc \in {"L122", "done"}
    /\ call[j].pc = "done" =>
         \A i \in InvocationsOf(j) : inv[i].pc \in {"done", "cancelled"}

C14_Step ==
  \A j \in RunOnce :
    call[j].pc = "done" =>
      /\ call'[j].pc = "done"
      /\ \A i \in DOMAIN inv' : inv'[i].job = j => i \in DOMAIN inv
      /\ \A i \in InvocationsOf(j) : ~SpawnsNow(i)

\* startup() call j, made with keepAlive = false, has seen its child exit
\* and has not returned
OnceExited(j) ==
  /\ j \in DOMAIN call
  /\ jobObj[j].type = "startup"
  /\ ~call[j].keepAlive
  /\ call[j].pc # "done"
  /\ \E i \in InvocationsOf(j) : inv[i].process = "exited"

OnceReturned(j) == j \in DOMAIN call /\ call[j].pc = "done"

\* C14: a startup() call made with keepAlive = false enters the execution
\* path at most once; once the child has exited the call returns, and after
\* it has returned no invocation of the job is made and no child spawned.
C14_KeepAliveFalseRunsOnce ==
  /\ []C14_Once
  /\ [][C14_Step]_vars
  /\ \A j \in 1..MaxJobs : OnceExited(j) ~> OnceReturned(j)

C14_Witness ==
  \E j \in RunOnce :
    /\ call[j].pc = "done"
    /\ \E i \in InvocationsOf(j) : inv[i].pc = "done" /\ inv[i].code = 1
    /\ jobObj[j].abortSignal \notin aborted
    /\ Len(inv) < MaxInv

C15_OneAtATime ==
  \A j \in JobsOfKind("startup") :
    /\ Cardinality(LiveChildren(j)) <= 1
    /\ Cardinality({ i \in InvocationsOf(j) :
                       inv[i].pc \notin {"done", "cancelled"} }) <= 1

C15_Step ==
  /\ \A i \in DOMAIN inv' \ DOMAIN inv :
       (inv'[i].by = "startup" /\ inv'[i].job \in DOMAIN call) =>
         /\ call[inv'[i].job].pc = "L130"
         /\ jobObj[inv'[i].job].abortSignal \notin aborted
         /\ \A i0 \in InvocationsOf(inv'[i].job) :
              inv[i0].pc \in {"done", "cancelled"}
  /\ \A j \in JobsOfKind("startup") :
       /\ call[j].pc = "L122" => call'[j].pc \in {"L122", "L130", "done"}
       /\ (call[j].pc = "L122" /\ call'[j].pc # "L122") =>
            \A i \in InvocationsOf(j) : inv[i].pc \in {"done", "cancelled"}

\* C15: a startup job never has two live children, nor two unfinished
\* invocations; the loop makes its next invocation only from the sleep that
\* follows the return of the previous one, and only when the abort signal,
\* read again at that point, is not aborted.
C15_StartupSequential == []C15_OneAtATime /\ [][C15_Step]_vars

C15_Witness ==
  \E j \in JobsOfKind("startup") :
    \E i1, i2 \in InvocationsOf(j) :
      /\ i1 < i2
      /\ inv[i1].pc = "done" /\ inv[i1].code = 0
      /\ inv[i2].process = "running"
      /\ call[j].pc = "L122"

\* the signal of job j is aborted and no invocation of j is on its way to
\* Deno.run
Quiet(j) ==
  /\ jobObj[j].abortSignal \in aborted
  /\ \A i \in InvocationsOf(j) :
       inv[i].process # "none" \/ inv[i].pc = "cancelled"

\* reset() is called in this step while a child of startup job j is alive
\* or while the loop of j sleeps
ResetUnderLoop(j) ==
  /\ IsReset
  /\ jobObj[j].abortSignal = abortController
  /\ LiveChildren(j) # {} \/ call[j].pc = "L130"

\* C16: a reset() called while the child of a startup job is alive, or
\* while the job's loop sleeps, leaves the job with an aborted signal and no
\* invocation on its way to Deno.run; from such a state the job gets no new
\* invocation and none of its invocations spawns a child, ever.
C16_NoReplacementAfterReset ==
  [][\A j \in JobsOfKind("startup") :
       /\ ResetUnderLoop(j) => Quiet(j)'
       /\ Quiet(j) =>
            /\ Quiet(j)'
            /\ \A i \in DOMAIN inv' \ DOMAIN inv : inv'[i].job # j
            /\ \A i \in InvocationsOf(j) : ~SpawnsNow(i)]_vars

\* reset() found the only child of a keepAlive job alive; the child has
\* died of the signal and the call has returned with room for a replacement
C16_Witness ==
  \E j \in JobsOfKind("startup") :
    /\ call[j].keepAlive
    /\ call[j].pc = "done"
    /\ jobObj[j].abortSignal \in aborted
    /\ Cardinality(InvocationsOf(j)) = 1
    /\ \A i \in InvocationsOf(j) :
         inv[i].pc = "done" /\ inv[i].sigterm /\ inv[i].code = 143
    /\ Len(inv) < MaxInv

C17_TokenUntripped == abortController \notin aborted

C17_Step ==
  /\ IsReset =>
       /\ jobs' = << >>
       /\ \A j \in JobsOfKind("scheduled") :
            jobObj[j].schedulerTaskId \notin DOMAIN scheduler'
       /\ abortController \in aborted'
       /\ abortController' \notin aborted'
       /\ \A j \in DOMAIN jobObj : jobObj[j].abortSignal # abortController'
  /\ \A j \in DOMAIN jobObj' \ DOMAIN jobObj :
       /\ jobObj'[j].abortSignal = abortController
       /\ jobObj'[j].abortSignal \notin aborted'
       /\ jobs'[jobObj'[j].name] = j
       /\ jobObj'[j].type = "scheduled" => j \in DOMAIN scheduler'

\* C17: the state reset() leaves has an empty registry, no scheduler task
\* of any scheduled job registered before, and a current abort controller
\* that is not aborted and that no earlier job holds; a job registered
\* afterwards captures that controller and gets its registry entry and its
\* scheduler task.
C17_ResetLeavesFreshGeneration == []C17_TokenUntripped /\ [][C17_Step]_vars

C17_Witness ==
  /\ abortController = 1
  /\ aborted = {0}
  /\ Len(jobObj) = 2
  /\ jobObj[1].type = "scheduled" /\ jobObj[1].abortSignal = 0
  /\ jobObj[2].type = "scheduled" /\ jobObj[2].abortSignal = 1
  /\ jobObj[1].name = jobObj[2].name
  /\ DOMAIN scheduler = {2}
  /\ Range(jobs) = {2}

\* kebab case said without the pattern: not empty, made of letters, digits
\* and hyphens, no hyphen first or last, no two hyphens in a row
WellFormed(name) ==
  /\ Len(name) > 0
  /\ \A k \in 1..Len(name) : name[k] \in AlphaNum \cup {"-"}
  /\ name[1] # "-"
  /\ name[Len(name)] # "-"
  /\ \A k \in 1..(Len(name) - 1) : ~(name[k] = "-" /\ name[k + 1] = "-")

\* the registry holds a job, of either type, under the name
Registered(name) == \E j \in Range(jobs) : jobObj[j].name = name

C18_Verdicts ==
  /\ \A name \in NameStrings :
       /\ ValidateName(name) = "InvalidName" <=> ~WellFormed(name)
       /\ ValidateName(name) = "DuplicateName" <=>
            (WellFormed(name) /\ Registered(name))
  /\ \A name \in { << >>, <<"A","b","_","c">>, <<"a","-","-","b">>,
                    <<"-","a">>, <<"a","-">> } :
       ValidateName(name) = "InvalidName"
  /\ \A name \in { <<"a">>, <<"j","o","b","-","1">>,
                    <<"D","o","-","I","t","-","N","o","w">> } :
       ValidateName(name) = IF Registered(name) THEN "DuplicateName" ELSE "none"

C18_Step ==
  /\ \A j \in DOMAIN jobObj' \ DOMAIN jobObj :
       /\ WellFormed(jobObj'[j].name)
       /\ ~Registered(jobObj'[j].name)
       /\ lastError' = "none"
  /\ (lastError' \in {"InvalidName", "DuplicateName"}) =>
       (jobObj' = jobObj /\ (jobs' = jobs \/ IsReset))

\* C18: #validateName throws the invalid-name error exactly for the names
\* that are not kebab case (the empty name among them), and the duplicate
\* error exactly for the kebab-case names the registry holds, under a
\* startup or a scheduled job; startup() and schedule() register a job only
\* under a name that passes, and register nothing when it throws.
C18_NameValidation == []C18_Verdicts /\ [][C18_Step]_vars

C18_Witness ==
  /\ lastError = "DuplicateName"
  /\ \E name \in DOMAIN jobs :
       /\ Len(name) = 4
       /\ name[2] = "-"
       /\ name[3] = "1"
       /\ jobObj[jobs[name]].type = "scheduled"

\* a step of load() that ends before the chronfile has been parsed with
\* success: the call up to the awaited read, or the failure of the parse
LoadStepBeforeParsed ==
  \E l \in DOMAIN loader' :
    /\ loader'[l].pc \in {"L79", "failed"}
    /\ l \in DOMAIN loader => loader'[l] # loader[l]

\* C19: load() does nothing to the supervisor until the chronfile has been
\* read and parsed with success: the steps of a load() whose read or parse
\* fails leave the registry, the scheduler tasks and the children as they
\* were.
C19_FailedLoadChangesNothing ==
  [][LoadStepBeforeParsed =>
       /\ jobs' = jobs
       /\ scheduler' = scheduler
       /\ inv' = inv]_vars

\* C20: a load() that has made a startup() or schedule() call which failed
\* validation does not complete with success: its promise is rejected with
\* the error of that call.
C20_InvalidEntryFailsLoad ==
  \A l \in DOMAIN loader :
    (loader[l].pc \in {"done", "failed"} /\ loader[l].rejected # << >>) =>
      /\ loader[l].pc = "failed"
      /\ loader[l].thrown = loader[l].rejected[1]

\* what the registry holds: name, type and options of every job
RegistryView ==
  { [name |-> jobObj[j].name, type |-> jobObj[j].type,
     keepAlive |-> call[j].keepAlive, schedule |-> jobObj[j].schedule,
     allowConcurrentRuns |-> call[j].allowConcurrentRuns,
     makeUpMissedRuns |-> call[j].makeUpMissedRuns] : j \in Range(jobs) }

\* the registry a chronfile asks for
ViewOf(entries) == Range(entries)

\* the chronfile has kebab-case names, each used once, and cron expressions
\* that parse
ValidConfig(entries) ==
  /\ \A k \in DOMAIN entries :
       /\ WellFormed(entries[k].name)
       /\ entries[k].type = "scheduled" => entries[k].schedule.valid
  /\ \A k1, k2 \in DOMAIN entries :
       entries[k1].name = entries[k2].name => k1 = k2

\* C21: when the last of a succession of load() calls has completed with a
\* valid chronfile, none of its startup()/schedule() calls has failed and
\* the registry holds exactly the jobs of that chronfile, with their type
\* and options, whatever was loaded before (the same chronfile included)
\* and whether or not children of the earlier load are alive.
C21_ReloadIsIdempotent ==
  \A l \in DOMAIN loader :
    (/\ l = Len(loader)
     /\ loader[l].pc = "done"
     /\ ValidConfig(loader[l].config))
    => /\ loader[l].rejected = << >>
       /\ RegistryView = ViewOf(loader[l].config)
       /\ DOMAIN jobs = { e.name : e \in Range(loader[l].config) }

\* the same one-job chronfile was loaded twice; the child of the first
\* load is still alive and the registry holds the job of the second
C21_Witness ==
  /\ Len(loader) = 2
  /\ loader[1].pc = "done" /\ loader[2].pc = "done"
  /\ loader[1].config = loader[2].config
  /\ loader[2].config = << StartupEntry(<<"a">>, TRUE) >>
  /\ Len(inv) = 2
  /\ inv[1].job = 1 /\ inv[1].process = "running"
  /\ inv[2].job = 2 /\ inv[2].process = "running"
  /\ Range(jobs) = {2}

\* the jobs of the registry that load() call l did not register
ForeignJobs(l) == Range(jobs) \ loader[l].registered

\* C22: while and after a load() call registers its jobs, the registry holds
\* no job that another load() call or an earlier configuration registered
\* next to a job of this call, and a load() call whose chronfile uses every
\* name once meets no duplicate-name error.
C22_ReloadIsAtomic ==
  \A l \in DOMAIN loader :
    /\ (Range(jobs) \cap loader[l].registered # {}) => ForeignJobs(l) = {}
    /\ ValidConfig(loader[l].config) =>
         \A k \in DOMAIN loader[l].rejected :
           loader[l].rejected[k] # "DuplicateName"

\* the loads the watcher has started
WatcherLoads == { l \in DOMAIN loader : loader[l].by = "watcher" }

\* the step delivers an event of a kind the watcher reacts to
ChangeEvent ==
  /\ watcher'.events = watcher.events + 1
  /\ watcher'.last \in {"modify", "remove"}

\* the step delivers an event of another kind
OtherEvent ==
  /\ watcher'.events = watcher.events + 1
  /\ watcher'.last \notin {"modify", "remove"}

\* the step starts a load of the watcher
WatcherLoadStarts ==
  /\ Len(loader') = Len(loader) + 1
  /\ loader'[Len(loader')].by = "watcher"

C23_Step ==
  /\ ChangeEvent => /\ watcher'.timer = DebounceWait
                    /\ loader' = loader
  /\ OtherEvent => /\ watcher'.timer = watcher.timer
                   /\ loader' = loader
  /\ WatcherLoadStarts => /\ watcher.timer = 0
                          /\ watcher'.timer = NoTime
                          /\ watcher'.events = watcher.events
  /\ (watcher.timer # NoTime /\ watcher'.timer = watcher.timer) =>
       WatcherLoads' = WatcherLoads

\* a timer is pending and n loads have been started
Pending(n) == watcher.timer # NoTime /\ Len(loader) = n

\* C23: a 'modify' or 'remove' event sets the timer back to the full second
\* and starts no load; an event of another kind leaves the timer alone and
\* starts no load; a load of the watcher starts only in a step in which the
\* timer has run down to zero since the last such event, and that step
\* leaves no timer, so that one burst starts one load; and a pending timer
\* leads to a load.
C23_DebounceTrailingEdge ==
  /\ [](Cardinality(WatcherLoads) <= watcher.calls)
  /\ [][C23_Step]_vars
  /\ \A n \in 0..(MaxWatchLoads - 1) : Pending(n) ~> (Len(loader) > n)

\* a burst of two 'modify' or 'remove' events and an event of another kind
\* have started one load, and no timer is left
C23_Witness ==
  /\ watcher.events = 3
  /\ watcher.calls = 2
  /\ Cardinality(WatcherLoads) = 1
  /\ watcher.timer = NoTime

\* the errors load() call l has met: the one its promise rejected with and
\* the ones its startup()/schedule() calls threw
ErrorsOf(l) ==
  Range(loader[l].rejected) \cup
  (IF loader[l].thrown = "none" THEN {} ELSE {loader[l].thrown})

\* C24: once the debounced function of the watcher has returned from a
\* load() that met an error (unreadable or invalid chronfile, invalid or
\* duplicate name, invalid cron expression), the error has been logged by
\* its catch clause.
C24_WatcherLogsFailure ==
  \A l \in WatcherLoads :
    loader[l].pc \in {"done", "caught"} => ErrorsOf(l) \subseteq Range(watcher.logged)

\* the step answers a request of this method for /job/<name>/<command>
Answers(method, command) ==
  /\ http'.pc = "idle"
  /\ http'.served = http.served + 1
  /\ http'.method = method
  /\ Len(http'.path) = 3
  /\ http'.path[1] = JobSeg
  /\ http'.path[3] = command

\* C25: POST /job/<name>/terminate for a registered job with a live child
\* answers "Terminated job" and signals a live child of the job; for a
\* registered job with no live child it answers "Job not running" and
\* signals nothing; for an unregistered name it answers 404 and signals
\* nothing.
C25_TerminateReply ==
  [][Answers("POST", TerminateSeg) =>
       LET name == http'.path[2]
       IN  IF name \notin DOMAIN jobs
           THEN http'.response.status = 404 /\ http'.kill = 0
           ELSE IF LiveChildren(jobs[name]) # {}
           THEN /\ http'.response = TextResponse(200, "Terminated job")
                /\ http'.kill \in LiveChildren(jobs[name])
                /\ inv'[http'.kill].sigterm
           ELSE /\ http'.response = TextResponse(200, "Job not running")
                /\ http'.kill = 0]_vars

\* the run-status entries of a name
RunsOf(name) == SelectSeq(statusDb, LAMBDA e : e.name = name)

\* runs holds the entries of the name, the greatest timestamp first
SortedRunsOf(runs, name) ==
  /\ Len(runs) = Len(RunsOf(name))
  /\ Range(runs) = Range(RunsOf(name))
  /\ \A k \in 1..(Len(runs) - 1) : runs[k].timestamp >= runs[k + 1].timestamp

\* C26: GET /job/<name>/status answers 404 for an unregistered name; for a
\* registered job the handler fetches the run-status entries of the name
\* sorted by descending timestamp, and its answer carries the name and the
\* type of the job, the first three of them at most as 'runs', 'nextRun'
\* exactly when the job is scheduled, and 'pid' exactly when a child of the
\* job is alive.
C26_StatusReply ==
  [][/\ (Answers("GET", StatusSeg) /\ http.pc = "idle") =>
          /\ http'.path[2] \notin DOMAIN jobs
          /\ http'.response = TextResponse(404, "Not Found")
     /\ (http.pc = "idle" /\ http'.pc = "L33") =>
          /\ http'.path[2] \in DOMAIN jobs
          /\ http'.job = jobs[http'.path[2]]
          /\ SortedRunsOf(http'.runs, http'.path[2])
     /\ (http.pc = "L33" /\ http'.pc = "idle") =>
          LET r == http'.response
              job == jobObj[http.job]
          IN  /\ r.status = 200
              /\ r.name = job.name
              /\ r.type = job.type
              /\ Len(r.runs) = Min(3, Len(http.runs))
              /\ \A k \in DOMAIN r.runs :
                    /\ r.runs[k].timestamp = http.runs[k].timestamp
                    /\ r.runs[k].statusCode = http.runs[k].statusCode
              /\ (r.nextRun # NoTime) <=> (job.type = "scheduled")
              /\ (r.pid # 0) <=> (LiveChildren(http.job) # {})]_vars

\* the methods of the route a path belongs to; none when it is no route
RouteMethods(path) ==
  IF Len(path) = 3 /\ path[1] = JobSeg
  THEN IF path[3] = StatusSeg THEN {"GET"}
       ELSE IF path[3] = LogsSeg THEN {"GET", "DELETE"}
       ELSE IF path[3] = MailboxSeg THEN {"GET", "POST", "DELETE"}
       ELSE IF path[3] = TerminateSeg THEN {"POST"}
       ELSE {}
  ELSE IF Len(path) = 2 /\ path[1] = MailboxSeg
  THEN IF path[2] = MessagesSeg THEN {"GET", "DELETE"}
       ELSE IF path[2] = CountSeg THEN {"GET"}
       ELSE {}
  ELSE {}

\* the path names a job that is not registered
UnknownJob(path) ==
  Len(path) = 3 /\ path[1] = JobSeg /\ path[2] \notin DOMAIN jobs

\* the path is /mailbox/<command> with a command that is no route
UnknownMailboxCommand(path) ==
  Len(path) = 2 /\ path[1] = MailboxSeg /\ path[2] \notin {MessagesSeg, CountSeg}

\* C27: a request for a path other than / that belongs to no route, an
\* unknown sub-path of a registered job included, is answered 400, and a
\* request for a route with a method the route does not list is answered
\* 405 (requests for unregistered jobs, answered 404, and for unknown
\* commands under /mailbox set aside).
C27_BadRequestOrMethod ==
  [][(/\ http.pc = "idle"
      /\ http'.pc = "idle"
      /\ http'.served = http.served + 1
      /\ http'.path # << >>
      /\ ~UnknownJob(http'.path)
      /\ ~UnknownMailboxCommand(http'.path)) =>
        /\ RouteMethods(http'.path) = {} => http'.response.status = 400
        /\ (/\ RouteMethods(http'.path) # {}
            /\ http'.method \notin RouteMethods(http'.path)) =>
             http'.response.status = 405]_vars

\* the children that have been spawned
Spawned == { i \in DOMAIN inv : inv[i].process # "none" }

\* the step answers a POST to the CHRON_MAILBOX_URL of live child i
PostsToMailboxUrl(i) ==
  /\ i \in DOMAIN inv
  /\ inv[i].process = "running"
  /\ http.pc = "idle"
  /\ http'.pc = "idle"
  /\ http'.served = http.served + 1
  /\ http'.method = "POST"
  /\ http'.path = inv[i].mailboxUrl

\* C28: every child is spawned with the URL /mailbox/<name of its job>, and
\* a POST of the child to that URL is answered 200 and adds one message,
\* with the name of the job as source and the body as text, to the mailbox.
C28_MailboxUrlAccepted ==
  /\ [](\A i \in Spawned :
          inv[i].mailboxUrl = <<MailboxSeg, jobObj[inv[i].job].name>>)
  /\ [][\A i \in 1..MaxInv :
          PostsToMailboxUrl(i) =>
            /\ http'.response.status = 200
            /\ mailbox' = Append(mailbox,
                  [source |-> jobObj[inv[i].job].name, message |-> http'.body])]_vars

\* how many times message m occurs in a sequence of messages
Count(msgs, m) == Cardinality({ k \in DOMAIN msgs : msgs[k] = m })

\* the messages before, after and returned by the step
AllMessages == Range(mailbox) \cup Range(mailbox') \cup Range(http'.response.messages)

\* the step answers a request of this method for this path
AnswersPath(method, path) ==
  /\ http.pc = "idle"
  /\ http'.pc = "idle"
  /\ http'.served = http.served + 1
  /\ http'.method = method
  /\ http'.path = path

\* the step clears the messages of source
ClearsSource(source) == AnswersPath("DELETE", <<JobSeg, source, MailboxSeg>>)

C29_Step ==
  /\ \A source \in DOMAIN jobs :
       ClearsSource(source) =>
         /\ \A m \in AllMessages :
              /\ Count(http'.response.messages, m) =
                   (IF m.source = source THEN Count(mailbox, m) ELSE 0)
              /\ Count(mailbox', m) =
                   (IF m.source = source THEN 0 ELSE Count(mailbox, m))
         /\ mailbox' = SelectSeq(mailbox, LAMBDA m : m.source # source)
  /\ AnswersPath("DELETE", <<MailboxSeg, MessagesSeg>>) =>
         /\ mailbox' = << >>
         /\ \A m \in AllMessages :
              Count(http'.response.messages, m) = Count(mailbox, m)
  /\ Len(mailbox') > Len(mailbox) =>
         /\ Len(mailbox') = Len(mailbox) + 1
         /\ SubSeq(mailbox', 1, Len(mailbox)) = mailbox

\* C29: clearing the mailbox of a source removes the messages of that source,
\* returns exactly those and leaves every other message, those of @errors
\* included, in place; clearing all empties the mailbox and returns what
\* was in it; a step that adds a message adds one and changes none of the
\* messages that were there.
C29_MailboxFrame == [][C29_Step]_vars

\* the mailbox of job a has just been cleared: its message was returned
\* and the messages of @errors and of another source are still there
C29_Witness ==
  /\ http.method = "DELETE"
  /\ http.path = <<JobSeg, <<"a">>, MailboxSeg>>
  /\ Len(http.response.messages) = 1
  /\ http.response.messages[1].source = <<"a">>
  /\ Len(mailbox) = 2
  /\ mailbox[1].source = ErrorsSource
  /\ mailbox[2].source = <<"b">>

\* how far invocation i has come: 1 the run-status entry is inserted, 3 the
\* log file is open, 4 the child is spawned, 5 its exit is seen and the
\* entry updated, 6 the failure is posted, 7 the log file is closed
Stage(pc) ==
  IF pc = "L226" THEN 0
  ELSE IF pc = "L232" THEN 1
  ELSE IF pc = "L240" THEN 2
  ELSE IF pc = "L245" THEN 3
  ELSE IF pc = "L264" THEN 4
  ELSE IF pc = "L269" THEN 5
  ELSE IF pc = "L280" THEN 6
  ELSE 7

\* the invocations that got past the abort check of #executeJob
Entered == { i \in DOMAIN inv : inv[i].pc # "cancelled" }

C30_Order ==
  \A i \in Entered :
    LET st == Stage(inv[i].pc)
        name == jobObj[inv[i].job].name
    IN  /\ (st >= 1) <=> (EntriesOf(i) # {})
        /\ (st >= 3 /\ st <= 6) <=> (inv[i].logFile = "open")
        /\ (st = 7) <=> (inv[i].logFile = "closed")
        /\ (st >= 4) <=> (inv[i].process # "none")
        /\ (st >= 5) => inv[i].process = "exited"
        /\ \A k \in EntriesOf(i) :
             statusDb[k].statusCode = (IF st >= 5 THEN inv[i].code ELSE NoCode)
        /\ (st >= 6 /\ inv[i].code # 0) =>
             ErrorMessage(name, inv[i].code) \in Range(mailbox)

C30_Step ==
  /\ \A i \in Entered :
       Stage(inv'[i].pc) \in {Stage(inv[i].pc), Stage(inv[i].pc) + 1}
  /\ mailbox' # mailbox =>
       \E i \in Entered :
         /\ inv[i].pc = "L269" /\ inv'[i].pc = "L280"
         /\ inv[i].code # 0
         /\ inv'[i].logFile = "open"
         /\ mailbox' = Append(mailbox,
               ErrorMessage(jobObj[inv[i].job].name, inv[i].code))

ExitedUnderAbort(i) ==
  /\ i \in DOMAIN inv
  /\ inv[i].pc = "L264"
  /\ inv[i].process = "exited"
  /\ jobObj[inv[i].job].abortSignal \in aborted

\* invocation i has completed: its entry has the exit code, its log file
\* has the footer and is closed
PostProcessed(i) ==
  /\ i \in DOMAIN inv
  /\ inv[i].pc = "done"
  /\ inv[i].logFile = "closed"
  /\ EntriesOf(i) # {}
  /\ \A k \in EntriesOf(i) : statusDb[k].statusCode = inv[i].code

\* the step in which #executeJob sees the exit of the child of invocation i
SeesExit(i) ==
  /\ i \in DOMAIN inv
  /\ inv[i].pc = "L264"
  /\ inv'[i].pc # "L264"

\* C31: when a child exits under an aborted signal, #executeJob still sees
\* the exit, clears job.process and writes the exit code to the run-status
\* entry in that step, and goes on to the footer and the close: the
\* invocation completes with its entry updated.
C31_PostProcessingAfterReset ==
  /\ [][\A i \in 1..MaxInv :
          (SeesExit(i) /\ jobObj[inv[i].job].abortSignal \in aborted) =>
            /\ jobObj'[inv[i].job].process = 0
            /\ inv'[i].pc = "L269"
            /\ \A k \in EntriesOf(i) : statusDb'[k].statusCode = inv[i].code]_vars
  /\ \A i \in 1..MaxInv : ExitedUnderAbort(i) ~> PostProcessed(i)

\* a child that reset() signalled has died of the signal and its
\* invocation has completed
C31_Witness ==
  \E i \in DOMAIN inv :
    /\ PostProcessed(i)
    /\ inv[i].sigterm
    /\ inv[i].code = 143
    /\ jobObj[inv[i].job].abortSignal \in aborted

\* the startup() call of a keepAlive job whose signal is not aborted
KeptAlive(j) ==
  /\ jobObj[j].type = "startup"
  /\ call[j].keepAlive
  /\ jobObj[j].abortSignal \notin aborted

\* the invocation the call last started failed to spawn its child
SpawnFailed(j) ==
  /\ call[j].awaiting \in DOMAIN inv
  /\ "Deno.run" \in inv[call[j].awaiting].failed

\* C32: a failure to spawn the child does not end the loop of a keepAlive
\* startup job whose signal is not aborted: the call is still awaiting the
\* invocation or sleeping before the next one.
C32_SpawnFailureKeepsLoop ==
  \A j \in DOMAIN call :
    (KeptAlive(j) /\ SpawnFailed(j)) => call[j].pc \in {"L122", "L130"}

\* a write of invocation i to the run-status store or to the mailbox failed
StoreWriteFailed(i) ==
  inv[i].failed \cap {"insertOne", "updateOne", "addMessage"} # {}

\* C33: an invocation with a failed write to the run-status store or to the
\* mailbox is not ended by it: it is never left by an exception, so its
\* child is spawned and awaited and its log file closed like any other's.
C33_StoreFailureContinues ==
  \A i \in DOMAIN inv : StoreWriteFailed(i) => inv[i].pc # "threw"

\* the invocations a step enters under an aborted signal
EnteredAborted ==
  { i \in DOMAIN inv' \ DOMAIN inv : jobObj'[inv'[i].job].abortSignal \in aborted }

\* invocation i has returned from its entry with nothing done
Untouched(i) ==
  /\ inv[i].pc = "cancelled"
  /\ inv[i].process = "none"
  /\ inv[i].logFile = "none"
  /\ inv[i].id = 0
  /\ i \notin listeners

\* C34: an entry into #executeJob under an aborted signal returns at once:
\* the step adds no run-status entry, opens no log file, spawns no child,
\* registers no listener and leaves job.process alone, and the invocation
\* never does anything later.
C34_AbortedEntryNoEffect ==
  /\ [][\A i \in EnteredAborted :
          /\ inv'[i] = NewInvocation(inv'[i].job, inv'[i].by, "cancelled", NoTime)
          /\ statusDb' = statusDb
          /\ listeners' = listeners
          /\ mailbox' = mailbox
          /\ jobObj' = jobObj]_vars
  /\ [][\A i \in DOMAIN inv : Untouched(i) => inv'[i] = inv[i]]_vars

C34_Witness == \E i \in DOMAIN inv : Untouched(i) /\ inv[i].by = "catchup"

\* the step calls the task of scheduled job j
Fires(j) ==
  /\ j \in DOMAIN scheduler
  /\ j \in DOMAIN scheduler'
  /\ scheduler'[j] # scheduler[j]

\* another job than j has a child that runs
OtherChildRuns(j) ==
  \E i \in DOMAIN inv : inv[i].job # j /\ inv[i].process = "running"

\* C35: the task of a scheduled job does not wait for the invocation it
\* starts, and the children of other jobs do not hold it back: a firing of
\* a job that is not skipped for its own child enters #executeJob in that
\* step and changes no other invocation, and while another job's child
\* runs a task that is due can still be called.
C35_FiringNeverWaits ==
  /\ [][\A j \in 1..MaxJobs :
          (Fires(j) /\ (jobObj[j].process = 0 \/ call[j].allowConcurrentRuns)) =>
            /\ Len(inv') = Len(inv) + 1
            /\ inv'[Len(inv')] = EnterExecute(j, jobObj[j].abortSignal, "cron")
            /\ \A i \in DOMAIN inv : inv'[i] = inv[i]]_vars
  /\ [](\A j \in DOMAIN scheduler :
          (scheduler[j] <= clock /\ Len(inv) < MaxInv /\ OtherChildRuns(j)) =>
            ENABLED CronFire(j))

C35_Witness ==
  \E i, k \in DOMAIN inv :
    /\ i < k
    /\ inv[i].job # inv[k].job
    /\ inv[i].process = "running"
    /\ inv[i].pc = "L264"
    /\ inv[k].by = "cron"
    /\ inv[k].process = "running"

\* C36: the header is written before the child is spawned and the footer
\* before the log file is closed: a spawned child finds the header write
\* completed, and a closed log file has no write pending.
C36_LogWritesOrdered ==
  \A i \in DOMAIN inv :
    /\ inv[i].process # "none" => inv[i].header = "written"
    /\ inv[i].logFile = "closed" =>
         inv[i].header = "written" /\ inv[i].footer = "written"

\* the step is a startup() or schedule() call that throws
CallThrows == lastError' # "none" /\ lastError' # lastError

\* C37: a startup() or schedule() call that throws InvalidName,
\* DuplicateName or InvalidCron changes nothing: the registry and its job
\* objects, the tasks of the scheduler, the calls and the invocations are
\* as before, the job of a duplicate name included.
C37_FailedCallNoEffect ==
  [][CallThrows =>
       UNCHANGED << jobs, jobObj, scheduler, call, inv, listeners, statusDb,
                    mailbox, abortController, aborted >>]_vars

C37_Witness ==
  /\ lastError = "DuplicateName"
  /\ Len(jobObj) = 1
  /\ jobObj[1].type = "scheduled"
  /\ DOMAIN scheduler = {1}
  /\ Len(call) = 1

\* the scheduled jobs in the registry
ScheduledJobs == { j \in Range(jobs) : jobObj[j].type = "scheduled" }

\* C38: the tasks registered with the scheduler are the tasks of the
\* scheduled jobs in the registry, one task per job: no task is left of a
\* job that reset() removed and no scheduled job is without its task.
C38_TasksMatchRegistry ==
  /\ DOMAIN scheduler = { jobObj[j].schedulerTaskId : j \in ScheduledJobs }
  /\ \A j, k \in ScheduledJobs :
       jobObj[j].schedulerTaskId = jobObj[k].schedulerTaskId => j = k

C38_Witness ==
  /\ \E j \in DOMAIN jobObj :
       jobObj[j].type = "scheduled" /\ j \notin Range(jobs)
         /\ jobObj[j].schedulerTaskId \notin DOMAIN scheduler
  /\ \E j \in ScheduledJobs : jobObj[j].schedulerTaskId \in DOMAIN scheduler

\* the invocations that await the exit of their child
AwaitingExit == { i \in DOMAIN inv : inv[i].pc = "L264" }

\* the part of C39 about the set of listeners: one per awaited child
ListenersAreAwaited == listeners = AwaitingExit

\* C39: the onAbort listeners are those of the invocations that await the
\* exit of their child, one each, and reset() calls no listener of a child
\* that has been reaped.
C39_HooksMatchAwaitedChildren ==
  /\ []ListenersAreAwaited
  /\ [][IsReset => \A i \in AbortListeners(abortController) : ~inv[i].reaped]_vars

\* the make-up runs with an entry in the store that the returned schedule()
\* calls of earlier jobs of the name of job j have made
MadeUpBefore(j) ==
  { i \in DOMAIN inv :
      /\ inv[i].by = "catchup"
      /\ inv[i].job < j
      /\ jobObj[inv[i].job].name = jobObj'[j].name
      /\ call[inv[i].job].pc = "done"
      /\ inv[i].pc = "done" }

\* the step in which schedule() of job j counts the missed runs
Counts(j) == j \in DOMAIN call /\ call[j].pc = "L173" /\ call'[j].pc # "L173"

\* C40: reset() leaves the run-status store and the mailbox as they are;
\* so a schedule() call made after it for a name whose earlier call made up
\* runs reads a last run time that is not before those runs, and counts
\* zero missed runs when the schedule has no occurrence from that time up
\* to now.
C40_ResetKeepsStores ==
  /\ [][IsReset => statusDb' = statusDb /\ mailbox' = mailbox]_vars
  /\ [][\A j \in DOMAIN call' \ DOMAIN call :
          \A i \in MadeUpBefore(j) : call'[j].lastRunTime >= inv[i].startTime]_vars
  /\ [][\A j \in 1..MaxJobs :
          (/\ Counts(j)
           /\ call[j].lastRunTime # NoTime
           /\ NextDate(jobObj[j].schedule, call[j].lastRunTime) > clock) =>
            call'[j].missedRuns = 0 /\ call'[j].pc = "done"]_vars

C40_Witness ==
  \E j \in DOMAIN call, i \in DOMAIN inv :
    /\ inv[i].by = "catchup"
    /\ inv[i].job < j
    /\ inv[i].pc = "done"
    /\ jobObj[inv[i].job].name = jobObj[j].name
    /\ jobObj[inv[i].job].abortSignal \in aborted
    /\ call[j].pc = "done"
    /\ call[j].lastRunTime = inv[i].startTime
    /\ call[j].missedRuns = 0
====
